---- MODULE Spec2Model ----
(***************************************************************************)
(* My Money Mate: the debt lifecycle (DebtManager.tsx), the due-date       *)
(* priority bands and the analytics aggregation (Analytics.tsx), modelled  *)
(* as state machines over the remote store and the components' view state. *)
(*                                                                         *)
(* Units.  JavaScript numbers are decimal fractions here, so amounts are   *)
(* kept as integers: CAD amounts in cents, the exchange rate in tenths     *)
(* (61.5 is 615), INR amounts in thousandths (cents * tenths).  Instants   *)
(* are seconds since the epoch (the source's milliseconds / 1000).         *)
(* Text that the code parses (amount fields, dates) is a tuple of          *)
(* one-character strings; text it only tests for emptiness is a string.    *)
(***************************************************************************)
EXTENDS Integers, Sequences, FiniteSets, TLC

(* ------------------------------ bounds -------------------------------- *)
\* Spec: debts.create attempts (ids handed out by handleAddDebt)
MaxDebts == 1
\* Spec: accepted handlePayment invocations (payment ids handed out)
MaxPayments == 2
\* Spec: remote calls awaiting their response at the same time
MaxInFlight == 2
\* SpecPay: the same two counts where invocations do not overlap
PayDebts == 1
PayPayments == 2
\* SpecAdd: the same two counts where invocations do not overlap
AddDebts == 1
AddPayments == 1
\* SpecPriority: calendar days the clock runs through
MaxClockDays == 2
\* SpecMonthly: transactions on display
MaxTransactions == 3
\* SpecSettings: times the Settings page is opened
MaxSettingsMounts == 2
\* Settings invocations awaiting a call
MaxSettingsInFlight == 2
\* times a transaction page is opened
MaxTxMounts == 2
\* transactions.create attempts (ids handed out)
MaxTxCreated == 2
\* update and delete invocations of the history page awaiting a call
MaxTxInFlight == 2
\* confirmation prompts accepted
MaxConfirms == 1
\* SpecAnalytics: times the Analytics page is opened
MaxAnalyticsMounts == 2
\* loadData invocations awaiting their lists
MaxAnalyticsInFlight == 2
\* SpecFamily: times the Family Access page is opened
MaxFamilyMounts == 2
\* family_access.create attempts (ids handed out)
MaxFamilyCreated == 2
\* Family Access invocations awaiting a call
MaxFamilyInFlight == 2
\* SpecTotals: debts in the store
MaxStoredDebts == 6

(* ------------------------- program constants -------------------------- *)
\* useState(61.5), in tenths
exchangeRate == 615
\* 1000 * 60 * 60 * 24 ms, in seconds
DayLength == 86400
\* the * 100 of a percentage, in hundredths of a percent
PercentScale == 10000
\* exchange_rate_cad_to_inr: 61.5 of the default preferences, in hundredths
DefaultRate == 6150
\* limit: 5 of the Dashboard's two list calls
DashboardLimit == 5

(* --------------------------- text helpers ----------------------------- *)
IsDigit(c) == c \in {"0", "1", "2", "3", "4", "5", "6", "7", "8", "9"}

DigitVal(c) ==
  CASE c = "0" -> 0 [] c = "1" -> 1 [] c = "2" -> 2 [] c = "3" -> 3
    [] c = "4" -> 4 [] c = "5" -> 5 [] c = "6" -> 6 [] c = "7" -> 7
    [] c = "8" -> 8 [] c = "9" -> 9

\* number of consecutive digits of s from position i on
RECURSIVE DigitsLen(_, _)
DigitsLen(s, i) ==
  IF i <= Len(s) /\ IsDigit(s[i]) THEN 1 + DigitsLen(s, i + 1) ELSE 0

\* value of a tuple of digits
RECURSIVE DigitsVal(_)
DigitsVal(s) ==
  IF s = <<>> THEN 0
  ELSE 10 * DigitsVal(SubSeq(s, 1, Len(s) - 1)) + DigitVal(s[Len(s)])

\* A parsed number is <<n>>; NaN is the empty tuple.
NaN == <<>>
isNaN(x) == x = NaN

\* JavaScript parseFloat on the text of an amount field: an optional sign,
\* the longest prefix of digits, an optional fraction; NaN when no digit was
\* read.  The value is returned in cents (fraction digits past the second
\* are not representable in a step-0.01 field).
parseFloat(s) ==
  LET neg   == Len(s) > 0 /\ s[1] = "-"
      start == IF Len(s) > 0 /\ s[1] \in {"-", "+"} THEN 2 ELSE 1
      n     == DigitsLen(s, start)
      dot   == start + n
      m     == IF dot <= Len(s) /\ s[dot] = "." THEN DigitsLen(s, dot + 1) ELSE 0
      ip    == DigitsVal(SubSeq(s, start, start + n - 1))
      frac  == SubSeq(s, dot + 1, dot + m)
      cents == IF m = 0 THEN 0
               ELSE IF m = 1 THEN 10 * DigitsVal(frac)
               ELSE DigitsVal(SubSeq(frac, 1, 2))
      mag   == 100 * ip + cents
  IN  IF n + m = 0 THEN NaN ELSE <<IF neg THEN 0 - mag ELSE mag>>

RECURSIVE Reverse(_)
Reverse(s) == IF s = <<>> THEN <<>> ELSE Append(Reverse(Tail(s)), Head(s))

RemoveAt(s, i) == SubSeq(s, 1, i - 1) \o SubSeq(s, i + 1, Len(s))

Range(s) == {s[i] : i \in DOMAIN s}

(* ------------------------------ inputs -------------------------------- *)
\* What the user has typed when a form's setter runs.  A specification
\* explores one form in full and feeds the other a few valid entries.
NewDebtForm(t, n, a, p, d) ==
  [type |-> t, person_name |-> n, amount |-> a, purpose |-> p, due_date |-> d]
PaymentForm(a, n) == [amount |-> a, notes |-> n]

Txt200 == <<"2", "0", "0">>
Txt100 == <<"1", "0", "0">>
TxtDue == <<"2", "0", "2", "4", "-", "0", "3", "-", "0", "3">>

AllDebtForms ==
  { NewDebtForm("owe", "Asha", Txt200, "rent", <<>>),
    NewDebtForm("lent", "Asha", Txt100, "rent", TxtDue), NewDebtForm("owe", "", Txt200, "rent", <<>>),
    NewDebtForm("owe", "Asha", Txt200, "", <<>>),
    NewDebtForm("owe", "Asha", <<>>, "rent", <<>>),
    NewDebtForm("lent", "Asha", <<"a", "b", "c">>, "rent", TxtDue),
    NewDebtForm("owe", "Asha", <<"0">>, "rent", <<>>),
    NewDebtForm("owe", "Asha", <<"-", "5">>, "rent", <<>>),
    NewDebtForm("owe", "Asha", <<"0", ".", "5">>, "rent", <<>>) }
Debt200Forms == { NewDebtForm("owe", "Asha", Txt200, "rent", <<>>) }
Debt100Forms == { NewDebtForm("owe", "Asha", Txt100, "rent", <<>>) }

AllPaymentForms ==
  { PaymentForm(<<>>, "cash"),
    PaymentForm(<<"a", "b", "c">>, ""),
    PaymentForm(<<"0">>, ""),
    PaymentForm(<<"1", "5", "0">>, ""),
    PaymentForm(<<"4", "0">>, "cash"),
    PaymentForm(Txt100, "") }
ValidPaymentForms == { PaymentForm(a, "") : a \in {<<"1">>, Txt100, Txt200} }
FewPaymentForms == { PaymentForm(Txt100, "") }

(* ------------------------------- state -------------------------------- *)
VARIABLES
  dbDebts,            \* remote store: the debts collection, in creation order
  dbPayments,         \* remote store: the debt_payments collection
  nextDebtId,         \* ids handed out by handleAddDebt so far + 1
  nextPaymentId,      \* ids handed out by handlePayment so far + 1
  debts,              \* DebtManager: useState<Debt[]>
  loading,            \* DebtManager: useState(true)
  addDialogOpen,      \* DebtManager: useState(false)
  paymentDialogOpen,  \* DebtManager: useState(false)
  selectedDebt,       \* DebtManager: useState<Debt | null>; <<>> is null
  newDebt,            \* DebtManager: the add-debt form
  payment,            \* DebtManager: the payment form
  toast,              \* the toast raised by the last step, if any
  calls,              \* handler invocations suspended at an await
  now,                \* the clock: what new Date() returns, in seconds
  renderedDebt,       \* the debt whose card was rendered last; <<>> if none
  renderedAt,         \* the instant getDaysUntilDue read when it rendered
  priority,           \* the priority getPriorityLevel gave that card
  transactions,       \* Analytics: useState<Transaction[]>
  analyticsOpen,      \* the Analytics page is mounted
  analyticsMount,     \* how many times it has been mounted
  analyticsLoading,   \* Analytics: useState(true)
  analyticsDebts,     \* Analytics: useState<Debt[]>([])
  timeRange,          \* Analytics: useState('6months')
  analyticsCalls,     \* loadData invocations suspended at their Promise.all
  monthlyData,        \* Analytics: getMonthlyData() of the last render
  expenseCategories,  \* Analytics: getCategoryData('expense') of that render
  incomeCategories,   \* Analytics: getCategoryData('income') of that render
  dbPreferences,      \* remote store: the user_preferences collection
  nextPrefId,         \* ids handed out by loadPreferences so far + 1
  settingsOpen,       \* the Settings page is mounted
  settingsMount,      \* how many times it has been mounted
  preferences,        \* Settings: useState<UserPreferences | null>; <<>> is null
  settingsExchangeRate, \* Settings: useState('61.5'), the rate field's text
  settingsLoading,    \* Settings: useState(false)
  isUpdatingRate,     \* Settings: useState(false)
  isDark,             \* Settings: useState(false), set from the document's class
  settingsToasts,     \* the toasts the last Settings step raised, in order
  settingsCalls,      \* Settings invocations suspended at an await
  dbTransactions,     \* remote store: the transactions collection
  nextTransactionId,  \* ids handed out by AddTransaction so far + 1
  txPage,             \* which transaction page is on screen, "none" if neither
  txMount,            \* how many times a transaction page has been mounted
  addType,            \* AddTransaction: useState<'income' | 'expense'>('expense')
  addAmount,          \* AddTransaction: useState(''), the amount field's text
  addCategory,        \* AddTransaction: useState('')
  addDescription,     \* AddTransaction: useState('')
  addDate,            \* AddTransaction: useState(today's date)
  addLoading,         \* AddTransaction: useState(false)
  txToasts,           \* the toasts the last transaction-page step raised
  txCalls,            \* transaction-page invocations suspended at an await
  historyTransactions, \* TransactionHistory: useState<Transaction[]>([])
  historyLoading,     \* TransactionHistory: useState(true)
  editingTransaction, \* TransactionHistory: useState<Transaction | null>; <<>> is null
  editDialogOpen,     \* TransactionHistory: useState(false)
  editForm,           \* TransactionHistory: the edit form's state
  confirmsAccepted,   \* window.confirm prompts the user has accepted so far
  dbFamily,           \* remote store: the family_access collection
  nextFamilyId,       \* ids handed out by addFamilyMember so far + 1
  familyOpen,         \* the Family Access page is mounted
  familyMount,        \* how many times it has been mounted
  familyMembers,      \* FamilyAccess: useState<FamilyAccess[]>([])
  familyLoading,      \* FamilyAccess: useState(true)
  familyDialogOpen,   \* FamilyAccess: useState(false), addDialogOpen
  newMemberEmail,     \* FamilyAccess: useState(''), the email field's text
  familyToasts,       \* the toasts the last Family Access step raised
  familyCalls,        \* Family Access invocations suspended at an await
  dashboardTransactions, \* Dashboard: useState<Transaction[]>([])
  dashboardDebts,     \* Dashboard: useState<Debt[]>([])
  dashboardLoading,   \* Dashboard: useState(true)
  dashboardCalls,     \* loadDashboardData invocations suspended at an await
  dashboardTotals,    \* Dashboard as rendered: totalOwed, totalLent; <<>> before
  quickStats          \* DebtManager as rendered: Total I Owe, Total Lent Out

debtVars ==
  <<dbDebts, dbPayments, nextDebtId, nextPaymentId, debts, loading,
    addDialogOpen, paymentDialogOpen, selectedDebt, newDebt, payment, toast,
    calls>>

priorityVars == <<now, renderedDebt, renderedAt, priority>>
analyticsPageVars ==
  <<analyticsOpen, analyticsMount, analyticsLoading, analyticsDebts,
    timeRange, analyticsCalls>>
analyticsVars ==
  <<transactions, monthlyData, expenseCategories, incomeCategories,
    analyticsPageVars>>

settingsVars ==
  <<dbPreferences, nextPrefId, settingsOpen, settingsMount, preferences,
    settingsExchangeRate, settingsLoading, isUpdatingRate, isDark,
    settingsToasts, settingsCalls>>

addVars ==
  <<addType, addAmount, addCategory, addDescription, addDate, addLoading>>

historyVars ==
  <<historyTransactions, historyLoading, editingTransaction, editDialogOpen,
    editForm>>

txVars ==
  <<dbTransactions, nextTransactionId, txPage, txMount, addVars, historyVars,
    txToasts, txCalls>>

\* what the debts page and the transaction pages hold besides the stores
debtPageVars ==
  <<nextDebtId, nextPaymentId, debts, loading, addDialogOpen,
    paymentDialogOpen, selectedDebt, newDebt, payment, toast, calls>>
txPageVars ==
  <<nextTransactionId, txPage, txMount, addVars, historyVars, txToasts,
    txCalls>>

\* the state of the pages other than the debts, the cards and the analytics
\* the Family Access page and the Dashboard
familyVars ==
  <<dbFamily, nextFamilyId, familyOpen, familyMount, familyMembers,
    familyLoading, familyDialogOpen, newMemberEmail, familyToasts,
    familyCalls>>
dashboardVars ==
  <<dashboardTransactions, dashboardDebts, dashboardLoading, dashboardCalls,
    dashboardTotals, quickStats>>
morePageVars == <<familyVars, dashboardVars>>

restVars == <<settingsVars, txVars, confirmsAccepted, morePageVars>>

vars == <<debtVars, priorityVars, analyticsVars, restVars>>

NoToast == [variant |-> "none", description |-> ""]
Destructive(msg) == [variant |-> "destructive", description |-> msg]
Plain(msg) == [variant |-> "default", description |-> msg]

EmptyNewDebt == NewDebtForm("owe", "", <<>>, "", <<>>)
EmptyPayment == PaymentForm(<<>>, "")

\* A suspended invocation: the handler, the await it is at, and what its
\* closure holds (the debt record, the parsed amount, the notes, the id of
\* the record it writes or deletes).
Call(kind, pc, debt, amount, id) ==
  [kind |-> kind, pc |-> pc, debt |-> debt, amount |-> amount, id |-> id,
   notes |-> ""]

loadDebtsCall == Call("loadDebts", "list", <<>>, 0, 0)

DebtInit ==
  /\ dbDebts = <<>>
  /\ dbPayments = <<>>
  /\ nextDebtId = 1
  /\ nextPaymentId = 1
  /\ debts = <<>>
  /\ loading = TRUE
  /\ addDialogOpen = FALSE
  /\ paymentDialogOpen = FALSE
  /\ selectedDebt = <<>>
  /\ newDebt = EmptyNewDebt
  /\ payment = EmptyPayment
  /\ toast = NoToast
  /\ calls = <<loadDebtsCall>>


(* ----------------------- DebtManager: derived ------------------------- *)
\* Number(d.is_paid) === 0
activeDebts == SelectSeq(debts, LAMBDA d : d.is_paid = "0")
paidDebts == SelectSeq(debts, LAMBDA d : d.is_paid = "1")

\* The component renders a skeleton while loading; the dialogs are modal.
Interactive == ~loading
PageInteractive == Interactive /\ ~addDialogOpen /\ ~paymentDialogOpen
AddFormInteractive == Interactive /\ addDialogOpen
PaymentFormInteractive == Interactive /\ paymentDialogOpen /\ ~addDialogOpen

StoreHas(id) == \E i \in DOMAIN dbDebts : dbDebts[i].id = id
StoreDebt(id) == dbDebts[CHOOSE i \in DOMAIN dbDebts : dbDebts[i].id = id]

(* --------------------------- loadDebts -------------------------------- *)
\* setLoading(true) and the list call issued
loadDebts(cs) ==
  /\ loading' = TRUE
  /\ calls' = Append(cs, loadDebtsCall)

\* the list resolved (where user_id, orderBy created_at desc): setDebts
loadDebtsResolved(i) ==
  /\ calls[i].kind = "loadDebts"
  /\ debts' = Reverse(dbDebts)
  /\ loading' = FALSE
  /\ calls' = RemoveAt(calls, i)
  /\ toast' = NoToast
  /\ UNCHANGED <<priorityVars, analyticsVars, restVars>>
  /\ UNCHANGED <<dbDebts, dbPayments, nextDebtId, nextPaymentId,
                 addDialogOpen, paymentDialogOpen, selectedDebt, newDebt,
                 payment>>

\* the list rejected: the catch block
loadDebtsRejected(i) ==
  /\ calls[i].kind = "loadDebts"
  /\ toast' = Destructive("Failed to load debts")
  /\ loading' = FALSE
  /\ calls' = RemoveAt(calls, i)
  /\ UNCHANGED <<priorityVars, analyticsVars, restVars>>
  /\ UNCHANGED <<dbDebts, dbPayments, nextDebtId, nextPaymentId, debts,
                 addDialogOpen, paymentDialogOpen, selectedDebt, newDebt,
                 payment>>

(* --------------------------- handleAddDebt ---------------------------- *)
\* handleAddDebt's validations with the purpose left out of the first
handleAddDebtValidationNoPurpose(nd) ==
  IF nd.person_name = "" \/ nd.amount = <<>>
  THEN "Please fill in all required fields"
  ELSE IF isNaN(parseFloat(nd.amount)) \/ parseFloat(nd.amount)[1] <= 0
  THEN "Please enter a valid amount"
  ELSE "ok"

\* The two validations of handleAddDebt: "ok" or the toast's text.
handleAddDebtValidation(nd) ==
  IF nd.person_name = "" \/ nd.amount = <<>> \/ nd.purpose = ""
  THEN "Please fill in all required fields"
  ELSE IF isNaN(parseFloat(nd.amount)) \/ parseFloat(nd.amount)[1] <= 0
  THEN "Please enter a valid amount"
  ELSE "ok"

\* the record with remaining_amount_cad left at 0
NewDebtRecordNothingRemaining(nd, id) ==
  LET amountCad == parseFloat(nd.amount)[1]
  IN  [ id                   |-> id,
        type                 |-> nd.type,
        person_name          |-> nd.person_name,
        total_amount_cad     |-> amountCad,
        total_amount_inr     |-> amountCad * exchangeRate,
        remaining_amount_cad |-> 0,
        remaining_amount_inr |-> amountCad * exchangeRate,
        exchange_rate        |-> exchangeRate,
        purpose              |-> nd.purpose,
        due_date             |-> nd.due_date,
        is_paid              |-> "0",
        priority_score       |-> 0 ]

\* const debt: Debt = {...}  (user_id and the timestamps left out)
NewDebtRecord(nd, id) ==
  LET amountCad == parseFloat(nd.amount)[1]
  IN  [ id                   |-> id,
        type                 |-> nd.type,
        person_name          |-> nd.person_name,
        total_amount_cad     |-> amountCad,
        total_amount_inr     |-> amountCad * exchangeRate,
        remaining_amount_cad |-> amountCad,
        remaining_amount_inr |-> amountCad * exchangeRate,
        exchange_rate        |-> exchangeRate,
        purpose              |-> nd.purpose,
        due_date             |-> nd.due_date,
        is_paid              |-> "0",
        priority_score       |-> 0 ]

\* setNewDebt({...newDebt, field: value}) of the form's onChange handlers
\* and type cards: the form as it stands once the user has typed nd
setNewDebt(nd) ==
  /\ AddFormInteractive
  /\ newDebt' = nd
  /\ toast' = NoToast
  /\ UNCHANGED <<priorityVars, analyticsVars, restVars>>
  /\ UNCHANGED <<dbDebts, dbPayments, nextDebtId, nextPaymentId, debts,
                 loading, addDialogOpen, paymentDialogOpen, selectedDebt,
                 payment, calls>>

\* the Add Debt buttons and the dialog's Cancel / onOpenChange
setAddDialogOpen(b) ==
  /\ IF b THEN PageInteractive ELSE AddFormInteractive
  /\ addDialogOpen' = b
  /\ toast' = NoToast
  /\ UNCHANGED <<priorityVars, analyticsVars, restVars>>
  /\ UNCHANGED <<dbDebts, dbPayments, nextDebtId, nextPaymentId, debts,
                 loading, paymentDialogOpen, selectedDebt, newDebt, payment,
                 calls>>

\* onSubmit of the add-debt form, up to the await of debts.create
handleAddDebt(B) ==
  /\ AddFormInteractive
  /\ LET v == handleAddDebtValidation(newDebt)
     IN  IF v # "ok"
         THEN /\ toast' = Destructive(v)
              /\ UNCHANGED <<nextDebtId, calls>>
         ELSE /\ nextDebtId <= B.debts
              /\ Len(calls) < B.inflight
              /\ calls' = Append(calls,
                   Call("handleAddDebt", "create",
                        <<NewDebtRecord(newDebt, nextDebtId)>>, 0, 0))
              /\ nextDebtId' = nextDebtId + 1
              /\ toast' = NoToast
  /\ UNCHANGED <<priorityVars, analyticsVars, restVars>>
  /\ UNCHANGED <<dbDebts, dbPayments, nextPaymentId, debts, loading,
                 addDialogOpen, paymentDialogOpen, selectedDebt, newDebt,
                 payment>>

\* debts.create resolved: toast, form reset, dialog closed, loadDebts()
handleAddDebtCreated(i) ==
  /\ calls[i].kind = "handleAddDebt"
  /\ dbDebts' = Append(dbDebts, calls[i].debt[1])
  /\ toast' = Plain(IF calls[i].debt[1].type = "owe"
                    THEN "Debt added successfully!"
                    ELSE "Loan added successfully!")
  /\ newDebt' = EmptyNewDebt
  /\ addDialogOpen' = FALSE
  /\ loadDebts(RemoveAt(calls, i))
  /\ UNCHANGED <<priorityVars, analyticsVars, restVars>>
  /\ UNCHANGED <<dbPayments, nextDebtId, nextPaymentId, debts,
                 paymentDialogOpen, selectedDebt, payment>>

\* debts.create rejected: the catch block
handleAddDebtRejected(i) ==
  /\ calls[i].kind = "handleAddDebt"
  /\ toast' = Destructive("Failed to add debt")
  /\ calls' = RemoveAt(calls, i)
  /\ UNCHANGED <<priorityVars, analyticsVars, restVars>>
  /\ UNCHANGED <<dbDebts, dbPayments, nextDebtId, nextPaymentId, debts,
                 loading, addDialogOpen, paymentDialogOpen, selectedDebt,
                 newDebt, payment>>

(* --------------------------- handlePayment ---------------------------- *)
\* handlePayment's validations without the comparison to the remaining amount
handlePaymentValidationNoLimit(sel, pay) ==
  IF sel = <<>> \/ pay.amount = <<>>
  THEN "Please enter payment amount"
  ELSE IF isNaN(parseFloat(pay.amount)) \/ parseFloat(pay.amount)[1] <= 0
  THEN "Please enter a valid payment amount"
  ELSE "ok"

\* handlePayment's validations with paymentAmount < 0 for paymentAmount <= 0
handlePaymentValidationZeroAllowed(sel, pay) ==
  IF sel = <<>> \/ pay.amount = <<>>
  THEN "Please enter payment amount"
  ELSE IF isNaN(parseFloat(pay.amount)) \/ parseFloat(pay.amount)[1] < 0
  THEN "Please enter a valid payment amount"
  ELSE IF parseFloat(pay.amount)[1] > sel[1].remaining_amount_cad
  THEN "Payment amount cannot exceed remaining debt"
  ELSE "ok"

\* The three validations of handlePayment: "ok" or the toast's text.
handlePaymentValidation(sel, pay) ==
  IF sel = <<>> \/ pay.amount = <<>>
  THEN "Please enter payment amount"
  ELSE IF isNaN(parseFloat(pay.amount)) \/ parseFloat(pay.amount)[1] <= 0
  THEN "Please enter a valid payment amount"
  ELSE IF parseFloat(pay.amount)[1] > sel[1].remaining_amount_cad
  THEN "Payment amount cannot exceed remaining debt"
  ELSE "ok"

\* paymentRecord without the debt it pays: debt_id left at 0
PaymentRecordUnlinked(sel, paymentAmount, notes, id) ==
  [ id            |-> id,
    debt_id       |-> 0,
    amount_cad    |-> paymentAmount,
    amount_inr    |-> paymentAmount * exchangeRate,
    exchange_rate |-> exchangeRate,
    notes         |-> notes ]

\* const paymentRecord: DebtPayment = {...}
PaymentRecord(sel, paymentAmount, notes, id) ==
  [ id            |-> id,
    debt_id       |-> sel.id,
    amount_cad    |-> paymentAmount,
    amount_inr    |-> paymentAmount * exchangeRate,
    exchange_rate |-> exchangeRate,
    notes         |-> notes ]

\* updatedDebt with newRemainingAmount < 0 for newRemainingAmount <= 0
UpdatedDebtPaidBelowZero(sel, paymentAmount) ==
  LET newRemainingAmount == sel.remaining_amount_cad - paymentAmount
  IN  [sel EXCEPT
         !.remaining_amount_cad = newRemainingAmount,
         !.remaining_amount_inr = newRemainingAmount * exchangeRate,
         !.is_paid = IF newRemainingAmount < 0 THEN "1" ELSE "0"]

\* updatedDebt with remaining_amount_inr taken from the payment
UpdatedDebtInrOfPayment(sel, paymentAmount) ==
  LET newRemainingAmount == sel.remaining_amount_cad - paymentAmount
  IN  [sel EXCEPT
         !.remaining_amount_cad = newRemainingAmount,
         !.remaining_amount_inr = paymentAmount * exchangeRate,
         !.is_paid = IF newRemainingAmount <= 0 THEN "1" ELSE "0"]

\* const updatedDebt = {...selectedDebt, ...}
UpdatedDebt(sel, paymentAmount) ==
  LET newRemainingAmount == sel.remaining_amount_cad - paymentAmount
  IN  [sel EXCEPT
         !.remaining_amount_cad = newRemainingAmount,
         !.remaining_amount_inr = newRemainingAmount * exchangeRate,
         !.is_paid = IF newRemainingAmount <= 0 THEN "1" ELSE "0"]

\* the payment (DollarSign) button of an active debt's card
openPaymentDialog(k) ==
  /\ PageInteractive
  /\ k \in DOMAIN activeDebts
  /\ selectedDebt' = <<activeDebts[k]>>
  /\ paymentDialogOpen' = TRUE
  /\ toast' = NoToast
  /\ UNCHANGED <<priorityVars, analyticsVars, restVars>>
  /\ UNCHANGED <<dbDebts, dbPayments, nextDebtId, nextPaymentId, debts,
                 loading, addDialogOpen, newDebt, payment, calls>>

\* setPayment({...payment, field: value}) of the form's onChange handlers
setPayment(p) ==
  /\ PaymentFormInteractive
  /\ payment' = p
  /\ toast' = NoToast
  /\ UNCHANGED <<priorityVars, analyticsVars, restVars>>
  /\ UNCHANGED <<dbDebts, dbPayments, nextDebtId, nextPaymentId, debts,
                 loading, addDialogOpen, paymentDialogOpen, selectedDebt,
                 newDebt, calls>>

\* the payment dialog's Cancel button
cancelPayment ==
  /\ PaymentFormInteractive
  /\ paymentDialogOpen' = FALSE
  /\ selectedDebt' = <<>>
  /\ payment' = EmptyPayment
  /\ toast' = NoToast
  /\ UNCHANGED <<priorityVars, analyticsVars, restVars>>
  /\ UNCHANGED <<dbDebts, dbPayments, nextDebtId, nextPaymentId, debts,
                 loading, addDialogOpen, newDebt, calls>>

\* the payment dialog dismissed: onOpenChange={setPaymentDialogOpen}
setPaymentDialogOpen ==
  /\ PaymentFormInteractive
  /\ paymentDialogOpen' = FALSE
  /\ toast' = NoToast
  /\ UNCHANGED <<priorityVars, analyticsVars, restVars>>
  /\ UNCHANGED <<dbDebts, dbPayments, nextDebtId, nextPaymentId, debts,
                 loading, addDialogOpen, selectedDebt, newDebt, payment,
                 calls>>

\* onSubmit of the payment form, up to the await of debt_payments.create
handlePayment(B) ==
  /\ PaymentFormInteractive
  /\ LET v == handlePaymentValidation(selectedDebt, payment)
     IN  IF v # "ok"
         THEN /\ toast' = Destructive(v)
              /\ UNCHANGED <<nextPaymentId, calls>>
         ELSE /\ nextPaymentId <= B.payments
              /\ Len(calls) < B.inflight
              /\ calls' = Append(calls,
                   [Call("handlePayment", "create", selectedDebt,
                         parseFloat(payment.amount)[1], nextPaymentId)
                      EXCEPT !.notes = payment.notes])
              /\ nextPaymentId' = nextPaymentId + 1
              /\ toast' = NoToast
  /\ UNCHANGED <<priorityVars, analyticsVars, restVars>>
  /\ UNCHANGED <<dbDebts, dbPayments, nextDebtId, debts, loading,
                 addDialogOpen, paymentDialogOpen, selectedDebt, newDebt,
                 payment>>

\* debt_payments.create resolved: debts.update issued
handlePaymentCreated(i) ==
  /\ calls[i].kind = "handlePayment"
  /\ calls[i].pc = "create"
  /\ dbPayments' = Append(dbPayments,
       PaymentRecord(calls[i].debt[1], calls[i].amount, calls[i].notes,
                     calls[i].id))
  /\ calls' = [calls EXCEPT ![i].pc = "update"]
  /\ toast' = NoToast
  /\ UNCHANGED <<priorityVars, analyticsVars, restVars>>
  /\ UNCHANGED <<dbDebts, nextDebtId, nextPaymentId, debts, loading,
                 addDialogOpen, paymentDialogOpen, selectedDebt, newDebt,
                 payment>>

\* debts.update resolved: toast, form reset, dialog closed, loadDebts()
handlePaymentUpdated(i) ==
  /\ calls[i].kind = "handlePayment"
  /\ calls[i].pc = "update"
  /\ StoreHas(calls[i].debt[1].id)
  /\ dbDebts' = [k \in DOMAIN dbDebts |->
                   IF dbDebts[k].id = calls[i].debt[1].id
                   THEN UpdatedDebt(calls[i].debt[1], calls[i].amount)
                   ELSE dbDebts[k]]
  /\ toast' = Plain("Payment recorded successfully!")
  /\ payment' = EmptyPayment
  /\ paymentDialogOpen' = FALSE
  /\ selectedDebt' = <<>>
  /\ loadDebts(RemoveAt(calls, i))
  /\ UNCHANGED <<priorityVars, analyticsVars, restVars>>
  /\ UNCHANGED <<dbPayments, nextDebtId, nextPaymentId, debts,
                 addDialogOpen, newDebt>>

\* a catch block that takes the created payment back when the update failed
handlePaymentRejectedRollback(i) ==
  /\ calls[i].kind = "handlePayment"
  /\ toast' = Destructive("Failed to record payment")
  /\ calls' = RemoveAt(calls, i)
  /\ dbPayments' = IF calls[i].pc = "update"
                   THEN SelectSeq(dbPayments, LAMBDA r : r.id # calls[i].id)
                   ELSE dbPayments
  /\ UNCHANGED <<priorityVars, analyticsVars, restVars>>
  /\ UNCHANGED <<dbDebts, nextDebtId, nextPaymentId, debts,
                 loading, addDialogOpen, paymentDialogOpen, selectedDebt,
                 newDebt, payment>>

\* either remote call of handlePayment rejected: the catch block
handlePaymentRejected(i) ==
  /\ calls[i].kind = "handlePayment"
  /\ toast' = Destructive("Failed to record payment")
  /\ calls' = RemoveAt(calls, i)
  /\ UNCHANGED <<priorityVars, analyticsVars, restVars>>
  /\ UNCHANGED <<dbDebts, dbPayments, nextDebtId, nextPaymentId, debts,
                 loading, addDialogOpen, paymentDialogOpen, selectedDebt,
                 newDebt, payment>>

(* ----------------------------- deleteDebt ----------------------------- *)
\* the Trash2 button of an active debt's card, up to the await
deleteDebt(k, B) ==
  /\ PageInteractive
  /\ k \in DOMAIN activeDebts
  /\ Len(calls) < B.inflight
  /\ calls' = Append(calls, Call("deleteDebt", "delete", <<>>, 0, activeDebts[k].id))
  /\ toast' = NoToast
  /\ UNCHANGED <<priorityVars, analyticsVars, restVars>>
  /\ UNCHANGED <<dbDebts, dbPayments, nextDebtId, nextPaymentId, debts,
                 loading, addDialogOpen, paymentDialogOpen, selectedDebt,
                 newDebt, payment>>

deleteDebtResolved(i) ==
  /\ calls[i].kind = "deleteDebt"
  /\ StoreHas(calls[i].id)
  /\ dbDebts' = SelectSeq(dbDebts, LAMBDA d : d.id # calls[i].id)
  /\ toast' = Plain("Debt deleted successfully")
  /\ loadDebts(RemoveAt(calls, i))
  /\ UNCHANGED <<priorityVars, analyticsVars, restVars>>
  /\ UNCHANGED <<dbPayments, nextDebtId, nextPaymentId, debts,
                 addDialogOpen, paymentDialogOpen, selectedDebt, newDebt,
                 payment>>

deleteDebtRejected(i) ==
  /\ calls[i].kind = "deleteDebt"
  /\ toast' = Destructive("Failed to delete debt")
  /\ calls' = RemoveAt(calls, i)
  /\ UNCHANGED <<priorityVars, analyticsVars, restVars>>
  /\ UNCHANGED <<dbDebts, dbPayments, nextDebtId, nextPaymentId, debts,
                 loading, addDialogOpen, paymentDialogOpen, selectedDebt,
                 newDebt, payment>>

(* ----------------------- priority by due date ------------------------ *)
\* Math.ceil(a / b) for b > 0
Ceil(a, b) == 0 - ((0 - a) \div b)

\* new Date("YYYY-MM-DD").getTime(): the date-only form is UTC midnight;
\* days from the civil date, times the length of a day
DateParse(s) ==
  LET y   == DigitsVal(SubSeq(s, 1, 4))
      m   == DigitsVal(SubSeq(s, 6, 7))
      d   == DigitsVal(SubSeq(s, 9, 10))
      yy  == IF m <= 2 THEN y - 1 ELSE y
      era == yy \div 400
      yoe == yy - era * 400
      mp  == IF m > 2 THEN m - 3 ELSE m + 9
      doy == (153 * mp + 2) \div 5 + d - 1
      doe == yoe * 365 + yoe \div 4 - yoe \div 100 + doy
  IN  (era * 146097 + doe - 719468) * DayLength

\* getDaysUntilDue with Math.floor for Math.ceil
getDaysUntilDueFloor(dueDate, today) ==
  (DateParse(dueDate) - today) \div DayLength

getDaysUntilDue(dueDate, today) ==
  LET due      == DateParse(dueDate)
      diffTime == due - today
      diffDays == Ceil(diffTime, DayLength)
  IN  diffDays

\* getPriorityLevel with < for <= at 7 and 30
getPriorityLevelExclusive(debt, today) ==
  IF debt.due_date = <<>> THEN "low"
  ELSE LET daysUntilDue == getDaysUntilDue(debt.due_date, today)
       IN  IF daysUntilDue < 0 THEN "overdue"
           ELSE IF daysUntilDue < 7 THEN "urgent"
           ELSE IF daysUntilDue < 30 THEN "medium"
           ELSE "low"

getPriorityLevel(debt, today) ==
  IF debt.due_date = <<>> THEN "low"
  ELSE LET daysUntilDue == getDaysUntilDue(debt.due_date, today)
       IN  IF daysUntilDue < 0 THEN "overdue"
           ELSE IF daysUntilDue <= 7 THEN "urgent"
           ELSE IF daysUntilDue <= 30 THEN "medium"
           ELSE "low"

\* The due dates on the cards, each with its calendar distance in days from
\* 2024-02-25 (2024 is a leap year) and that day's number since the epoch.
BaseDay == 19778
DueDates ==
  { [text |-> <<"2","0","2","4","-","0","2","-","2","3">>, offset |-> -2],
    [text |-> <<"2","0","2","4","-","0","2","-","2","4">>, offset |-> -1],
    [text |-> <<"2","0","2","4","-","0","2","-","2","5">>, offset |-> 0],
    [text |-> <<"2","0","2","4","-","0","2","-","2","6">>, offset |-> 1],
    [text |-> <<"2","0","2","4","-","0","2","-","2","9">>, offset |-> 4],
    [text |-> <<"2","0","2","4","-","0","3","-","0","2">>, offset |-> 6],
    [text |-> <<"2","0","2","4","-","0","3","-","0","3">>, offset |-> 7],
    [text |-> <<"2","0","2","4","-","0","3","-","0","4">>, offset |-> 8],
    [text |-> <<"2","0","2","4","-","0","3","-","0","5">>, offset |-> 9],
    [text |-> <<"2","0","2","4","-","0","3","-","2","5">>, offset |-> 29],
    [text |-> <<"2","0","2","4","-","0","3","-","2","6">>, offset |-> 30],
    [text |-> <<"2","0","2","4","-","0","3","-","2","7">>, offset |-> 31],
    [text |-> <<"2","0","2","4","-","0","3","-","2","8">>, offset |-> 32],
    [text |-> <<"2","0","2","5","-","0","2","-","2","5">>, offset |-> 366] }

\* the clock's readings: the first MaxClockDays days from 2024-02-25, each
\* at midnight, a second later, noon and a second before the next midnight
TimesOfDay == {0, 1, 43200, DayLength - 1}
ClockReadings ==
  { (BaseDay + j) * DayLength + t : j \in 0..(MaxClockDays - 1), t \in TimesOfDay }

PriorityDebts ==
  { NewDebtRecord(NewDebtForm("owe", "Asha", Txt200, "rent", d), 1) :
      d \in {<<>>} \cup {c.text : c \in DueDates} }

\* time passes
tick(t) ==
  /\ t > now
  /\ now' = t
  /\ UNCHANGED <<debtVars, renderedDebt, renderedAt, priority, analyticsVars, restVars>>

\* an active debt's card is rendered: const priority = getPriorityLevel(debt)
renderCard(debt) ==
  /\ renderedDebt' = <<debt>>
  /\ renderedAt' = now
  /\ priority' = getPriorityLevel(debt, now)
  /\ UNCHANGED <<debtVars, now, analyticsVars, restVars>>

PriorityInit ==
  /\ now = BaseDay * DayLength
  /\ renderedDebt = <<>>
  /\ renderedAt = 0
  /\ priority = "none"

PriorityNext ==
  \/ \E t \in ClockReadings : tick(t)
  \/ \E d \in PriorityDebts : renderCard(d)

(* ----------------------- Analytics: monthly data --------------------- *)
Transaction(date, type, amount_cad) ==
  [date |-> date, type |-> type, amount_cad |-> amount_cad,
   category |-> IF type = "income" THEN "Salary" ELSE "Groceries"]

\* The user's transactions as the store holds them (amounts in cents).
TransactionInputs ==
  { Transaction(<<"2","0","2","3","-","1","2","-","3","1">>, "expense", 3000),
    Transaction(<<"2","0","2","4","-","0","1","-","1","5">>, "income", 10000),
    Transaction(<<"2","0","2","4","-","0","1","-","1","5">>, "expense", 5000),
    Transaction(<<"2","0","2","4","-","0","1","-","2","0">>, "expense", 3000),
    Transaction(<<"2","0","2","4","-","0","1","-","2","0">>, "income", 5000),
    Transaction(<<"2","0","2","4","-","0","2","-","0","1">>, "income", 5000),
    Transaction(<<"2","0","2","4","-","1","0","-","0","9">>, "expense", 10000) }

\* the rank of a character in the collation order localeCompare follows
CharRank(c) == IF c = "-" THEN 0 ELSE 1 + DigitVal(c)

\* a.localeCompare(b) < 0, on texts of digits and hyphens
RECURSIVE TextLess(_, _)
TextLess(a, b) ==
  IF b = <<>> THEN FALSE
  ELSE IF a = <<>> THEN TRUE
  ELSE IF CharRank(Head(a)) # CharRank(Head(b))
       THEN CharRank(Head(a)) < CharRank(Head(b))
  ELSE TextLess(Tail(a), Tail(b))

\* the list call's orderBy: { date: 'desc' }
DateDescending(list) ==
  \A i \in 1..(Len(list) - 1) : ~TextLess(list[i].date, list[i + 1].date)

\* monthlyMap after the forEach: the entries in insertion order
RECURSIVE monthlyMap(_)
monthlyMap(list) ==
  IF list = <<>> THEN <<>>
  ELSE LET before      == monthlyMap(SubSeq(list, 1, Len(list) - 1))
           transaction == list[Len(list)]
           monthKey    == SubSeq(transaction.date, 1, 7)
           found       == {k \in DOMAIN before : before[k].month = monthKey}
           existing    == IF found = {}
                          THEN [month |-> monthKey, income |-> 0, expenses |-> 0]
                          ELSE before[CHOOSE k \in found : TRUE]
           updated     == IF transaction.type = "income"
                          THEN [existing EXCEPT !.income = @ + transaction.amount_cad]
                          ELSE [existing EXCEPT !.expenses = @ + transaction.amount_cad]
       IN  IF found = {} THEN Append(before, updated)
           ELSE [k \in DOMAIN before |-> IF k \in found THEN updated ELSE before[k]]

\* .sort((a, b) => a.month.localeCompare(b.month)): a stable sort
RECURSIVE sortByMonth(_)
sortByMonth(entries) ==
  IF entries = <<>> THEN <<>>
  ELSE LET sorted == sortByMonth(SubSeq(entries, 1, Len(entries) - 1))
           e      == entries[Len(entries)]
           at     == Cardinality({k \in DOMAIN sorted : ~TextLess(e.month, sorted[k].month)})
       IN  SubSeq(sorted, 1, at) \o <<e>> \o SubSeq(sorted, at + 1, Len(sorted))

\* getMonthlyData without the final sort
getMonthlyDataUnsorted(list) ==
  [k \in DOMAIN monthlyMap(list) |->
     [month    |-> monthlyMap(list)[k].month,
      income   |-> monthlyMap(list)[k].income,
      expenses |-> monthlyMap(list)[k].expenses,
      net      |-> monthlyMap(list)[k].income - monthlyMap(list)[k].expenses]]

getMonthlyData(list) ==
  LET m == monthlyMap(list)
  IN  sortByMonth([k \in DOMAIN m |->
        [month    |-> m[k].month,
         income   |-> m[k].income,
         expenses |-> m[k].expenses,
         net      |-> m[k].income - m[k].expenses]])

(* ----------------------- Analytics: category data -------------------- *)
\* typeTransactions.reduce((sum, t) => sum + t.amount_cad, 0)
RECURSIVE sumAmountCad(_)
sumAmountCad(list) ==
  IF list = <<>> THEN 0
  ELSE sumAmountCad(SubSeq(list, 1, Len(list) - 1)) + list[Len(list)].amount_cad

\* categoryMap after the forEach: the entries in insertion order
RECURSIVE categoryMap(_)
categoryMap(list) ==
  IF list = <<>> THEN <<>>
  ELSE LET before      == categoryMap(SubSeq(list, 1, Len(list) - 1))
           transaction == list[Len(list)]
           found       == {k \in DOMAIN before :
                             before[k].category = transaction.category}
           existing    == IF found = {}
                          THEN [category |-> transaction.category,
                                amount |-> 0, count |-> 0]
                          ELSE before[CHOOSE k \in found : TRUE]
           updated     == [existing EXCEPT
                             !.amount = @ + transaction.amount_cad,
                             !.count = @ + 1]
       IN  IF found = {} THEN Append(before, updated)
           ELSE [k \in DOMAIN before |-> IF k \in found THEN updated ELSE before[k]]

\* .sort((a, b) => b.amount - a.amount): a stable sort
RECURSIVE sortByAmount(_)
sortByAmount(entries) ==
  IF entries = <<>> THEN <<>>
  ELSE LET sorted == sortByAmount(SubSeq(entries, 1, Len(entries) - 1))
           e      == entries[Len(entries)]
           at     == Cardinality({k \in DOMAIN sorted : sorted[k].amount >= e.amount})
       IN  SubSeq(sorted, 1, at) \o <<e>> \o SubSeq(sorted, at + 1, Len(sorted))

\* getCategoryData with totalAmount summed over the transactions of both types
getCategoryDataTotalOfAll(list, type) ==
  LET typeTransactions == SelectSeq(list, LAMBDA t : t.type = type)
      totalAmount      == sumAmountCad(list)
      m                == categoryMap(typeTransactions)
  IN  sortByAmount([k \in DOMAIN m |->
        [category     |-> m[k].category,
         amount       |-> m[k].amount,
         percentage   |-> IF totalAmount > 0
                          THEN (m[k].amount * PercentScale) \div totalAmount
                          ELSE 0,
         transactions |-> m[k].count]])

\* getCategoryData(type); the percentage is kept in hundredths of a percent,
\* cut off below
getCategoryData(list, type) ==
  LET typeTransactions == SelectSeq(list, LAMBDA t : t.type = type)
      totalAmount      == sumAmountCad(typeTransactions)
      m                == categoryMap(typeTransactions)
  IN  sortByAmount([k \in DOMAIN m |->
        [category     |-> m[k].category,
         amount       |-> m[k].amount,
         percentage   |-> IF totalAmount > 0
                          THEN (m[k].amount * PercentScale) \div totalAmount
                          ELSE 0,
         transactions |-> m[k].count]])

\* the component renders: const monthlyData = getMonthlyData(), const
\* expenseCategories = getCategoryData('expense'), const incomeCategories =
\* getCategoryData('income')
renderAnalytics ==
  /\ monthlyData' = <<getMonthlyData(transactions)>>
  /\ expenseCategories' = <<getCategoryData(transactions, "expense")>>
  /\ incomeCategories' = <<getCategoryData(transactions, "income")>>
  /\ UNCHANGED <<debtVars, priorityVars, transactions, analyticsPageVars,
                 restVars>>

CategorisedTransaction(date, type, category, amount_cad) ==
  [Transaction(date, type, amount_cad) EXCEPT !.category = category]

\* The user's transactions with their categories (amounts in cents).
CategoryInputs ==
  { CategorisedTransaction(<<"2","0","2","4","-","0","2","-","0","1">>, "expense", "Groceries", 3000),
    CategorisedTransaction(<<"2","0","2","4","-","0","1","-","2","0">>, "expense", "Groceries", 5000),
    CategorisedTransaction(<<"2","0","2","4","-","0","1","-","2","0">>, "expense", "Travel", 10000),
    CategorisedTransaction(<<"2","0","2","4","-","0","1","-","1","5">>, "expense", "Shopping", 3000),
    CategorisedTransaction(<<"2","0","2","4","-","0","1","-","1","5">>, "income", "Salary", 10000),
    CategorisedTransaction(<<"2","0","2","4","-","0","1","-","1","5">>, "income", "Gift", 5000),
    CategorisedTransaction(<<"2","0","2","4","-","0","1","-","1","0">>, "income", "Salary", 5000) }

\* the categorised transactions on display
CategoryLists ==
  { list \in UNION { [1..n -> CategoryInputs] : n \in 0..MaxTransactions } :
      DateDescending(list) }

\* the transactions on display: any date-descending list of the user's
\* transactions, as loadData's setTransactions leaves it
AnalyticsLists ==
  { list \in UNION { [1..n -> TransactionInputs] : n \in 0..MaxTransactions } :
      DateDescending(list) }

(* ------------------------------ Settings ------------------------------ *)
DigitText(d) ==
  CASE d = 0 -> "0" [] d = 1 -> "1" [] d = 2 -> "2" [] d = 3 -> "3"
    [] d = 4 -> "4" [] d = 5 -> "5" [] d = 6 -> "6" [] d = 7 -> "7"
    [] d = 8 -> "8" [] d = 9 -> "9"

\* the decimal digits of a natural number
RECURSIVE NatText(_)
NatText(n) ==
  IF n < 10 THEN <<DigitText(n)>>
  ELSE Append(NatText(n \div 10), DigitText(n % 10))

\* Number.prototype.toString of a positive number given in hundredths
toString(x) ==
  LET ip == x \div 100
      fr == x % 100
  IN  NatText(ip) \o
        (IF fr = 0 THEN <<>>
         ELSE IF fr % 10 = 0 THEN <<".", DigitText(fr \div 10)>>
         ELSE <<".", DigitText(fr \div 10), DigitText(fr % 10)>>)

\* const defaultPrefs: UserPreferences = {...}  (user_id and the timestamps
\* left out; the rate in hundredths)
DefaultPrefs(id) ==
  [ id                       |-> id,
    default_currency         |-> "CAD",
    theme                    |-> "light",
    exchange_rate_cad_to_inr |-> DefaultRate ]

\* lists and deletes are the calls of clearAllData still awaited, settled
\* tells that its Promise.all has been answered, and outer that
\* updatePreferences was called by updateExchangeRate
SettingsCall(kind, pc, mount, prefs) ==
  [kind |-> kind, pc |-> pc, mount |-> mount, prefs |-> prefs,
   lists |-> {}, deletes |-> {}, settled |-> FALSE, outer |-> FALSE]

\* a state setter called by an invocation of the mount m reaches the
\* component only while that mount is on the page
Mounted(m) == settingsOpen /\ settingsMount = m

SettingsInit ==
  /\ dbPreferences = <<>>
  /\ nextPrefId = 1
  /\ settingsOpen = FALSE
  /\ settingsMount = 0
  /\ preferences = <<>>
  /\ settingsExchangeRate = toString(DefaultRate)
  /\ settingsLoading = FALSE
  /\ isUpdatingRate = FALSE
  /\ isDark = FALSE
  /\ settingsToasts = <<>>
  /\ settingsCalls = <<>>

\* the user opens the Settings page: the component mounts with its initial
\* state and its effect calls loadPreferences(), which awaits the list
openSettings ==
  /\ ~settingsOpen
  /\ settingsMount < MaxSettingsMounts
  /\ settingsOpen' = TRUE
  /\ settingsMount' = settingsMount + 1
  /\ preferences' = <<>>
  /\ settingsExchangeRate' = toString(DefaultRate)
  /\ settingsLoading' = FALSE
  /\ isUpdatingRate' = FALSE
  /\ settingsToasts' = <<>>
  /\ settingsCalls' = Append(settingsCalls,
       SettingsCall("loadPreferences", "list", settingsMount + 1, <<>>))
  /\ UNCHANGED <<dbPreferences, nextPrefId, isDark>>
  /\ UNCHANGED <<debtVars, priorityVars, analyticsVars, morePageVars, txVars,
                 confirmsAccepted>>

\* the user leaves the Settings page: the component unmounts
closeSettings ==
  /\ settingsOpen
  /\ settingsOpen' = FALSE
  /\ settingsToasts' = <<>>
  /\ UNCHANGED <<dbPreferences, nextPrefId, settingsMount, preferences,
                 settingsExchangeRate, settingsLoading, isUpdatingRate,
                 isDark, settingsCalls>>
  /\ UNCHANGED <<debtVars, priorityVars, analyticsVars, morePageVars, txVars,
                 confirmsAccepted>>

\* user_preferences.list (limit 1) resolved with a record: setPreferences,
\* setExchangeRate.  The query states no order: any record may be the one.
loadPreferencesFound(i, k) ==
  /\ settingsCalls[i].kind = "loadPreferences"
  /\ settingsCalls[i].pc = "list"
  /\ k \in DOMAIN dbPreferences
  /\ IF Mounted(settingsCalls[i].mount)
     THEN /\ preferences' = <<dbPreferences[k]>>
          /\ settingsExchangeRate' =
               toString(dbPreferences[k].exchange_rate_cad_to_inr)
     ELSE UNCHANGED <<preferences, settingsExchangeRate>>
  /\ settingsCalls' = RemoveAt(settingsCalls, i)
  /\ settingsToasts' = <<>>
  /\ UNCHANGED <<dbPreferences, nextPrefId, settingsOpen, settingsMount,
                 settingsLoading, isUpdatingRate, isDark>>
  /\ UNCHANGED <<debtVars, priorityVars, analyticsVars, morePageVars, txVars,
                 confirmsAccepted>>

\* user_preferences.list resolved empty: defaultPrefs built, create issued
loadPreferencesEmpty(i) ==
  /\ settingsCalls[i].kind = "loadPreferences"
  /\ settingsCalls[i].pc = "list"
  /\ dbPreferences = <<>>
  /\ settingsCalls' = [settingsCalls EXCEPT
                         ![i].pc = "create",
                         ![i].prefs = <<DefaultPrefs(nextPrefId)>>]
  /\ nextPrefId' = nextPrefId + 1
  /\ settingsToasts' = <<>>
  /\ UNCHANGED <<dbPreferences, settingsOpen, settingsMount, preferences,
                 settingsExchangeRate, settingsLoading, isUpdatingRate,
                 isDark>>
  /\ UNCHANGED <<debtVars, priorityVars, analyticsVars, morePageVars, txVars,
                 confirmsAccepted>>

\* user_preferences.create resolved: setPreferences(created)
loadPreferencesCreated(i) ==
  /\ settingsCalls[i].kind = "loadPreferences"
  /\ settingsCalls[i].pc = "create"
  /\ dbPreferences' = Append(dbPreferences, settingsCalls[i].prefs[1])
  /\ IF Mounted(settingsCalls[i].mount)
     THEN preferences' = settingsCalls[i].prefs
     ELSE UNCHANGED preferences
  /\ settingsCalls' = RemoveAt(settingsCalls, i)
  /\ settingsToasts' = <<>>
  /\ UNCHANGED <<nextPrefId, settingsOpen, settingsMount,
                 settingsExchangeRate, settingsLoading, isUpdatingRate,
                 isDark>>
  /\ UNCHANGED <<debtVars, priorityVars, analyticsVars, morePageVars, txVars,
                 confirmsAccepted>>

\* either remote call of loadPreferences rejected: the catch block, which
\* logs to the console and raises no toast
loadPreferencesRejected(i) ==
  /\ settingsCalls[i].kind = "loadPreferences"
  /\ settingsCalls' = RemoveAt(settingsCalls, i)
  /\ settingsToasts' = <<>>
  /\ UNCHANGED <<dbPreferences, nextPrefId, settingsOpen, settingsMount,
                 preferences, settingsExchangeRate, settingsLoading,
                 isUpdatingRate, isDark>>
  /\ UNCHANGED <<debtVars, priorityVars, analyticsVars, morePageVars, txVars,
                 confirmsAccepted>>

\* what the user types into the rate field (a number input)
RateTexts == {<<>>, <<"0">>, <<"6", "2">>}

\* onChange of the rate field
setExchangeRate(t) ==
  /\ settingsOpen
  /\ settingsExchangeRate' = t
  /\ settingsToasts' = <<>>
  /\ UNCHANGED <<dbPreferences, nextPrefId, settingsOpen, settingsMount,
                 preferences, settingsLoading, isUpdatingRate, isDark,
                 settingsCalls>>
  /\ UNCHANGED <<debtVars, priorityVars, analyticsVars, morePageVars, txVars,
                 confirmsAccepted>>

\* const updatedPrefs = {...preferences, ...updates}: updates is a record
\* whose fields replace those of preferences
updatedPrefs(prefs, updates) ==
  [f \in DOMAIN prefs |->
     IF f \in DOMAIN updates THEN updates[f] ELSE prefs[f]]

\* the theme switch: toggleTheme, through updatePreferences up to its await
toggleTheme ==
  /\ settingsOpen
  /\ isDark' = ~isDark
  /\ IF preferences = <<>>
     THEN UNCHANGED <<settingsLoading, settingsCalls>>
     ELSE /\ Len(settingsCalls) < MaxSettingsInFlight
          /\ settingsLoading' = TRUE
          /\ settingsCalls' = Append(settingsCalls,
               SettingsCall("updatePreferences", "update", settingsMount,
                 <<updatedPrefs(preferences[1],
                     [theme |-> IF isDark THEN "light" ELSE "dark"])>>))
  /\ settingsToasts' = <<>>
  /\ UNCHANGED <<dbPreferences, nextPrefId, settingsOpen, settingsMount,
                 preferences, settingsExchangeRate, isUpdatingRate>>
  /\ UNCHANGED <<debtVars, priorityVars, analyticsVars, morePageVars, txVars,
                 confirmsAccepted>>

\* the Update button of the rate (disabled while isUpdatingRate):
\* updateExchangeRate, through updatePreferences up to its await.  With
\* preferences null, updatePreferences returns at once and the success
\* toast follows.
updateExchangeRate ==
  /\ settingsOpen
  /\ ~isUpdatingRate
  /\ LET rate == parseFloat(settingsExchangeRate)
     IN  IF isNaN(rate) \/ rate[1] <= 0
         THEN /\ settingsToasts' =
                   <<Destructive("Please enter a valid exchange rate")>>
              /\ UNCHANGED <<settingsLoading, isUpdatingRate, settingsCalls>>
         ELSE IF preferences = <<>>
         THEN /\ settingsToasts' =
                   <<Plain("Exchange rate updated successfully!")>>
              /\ UNCHANGED <<settingsLoading, isUpdatingRate, settingsCalls>>
         ELSE /\ Len(settingsCalls) < MaxSettingsInFlight
              /\ isUpdatingRate' = TRUE
              /\ settingsLoading' = TRUE
              /\ settingsCalls' = Append(settingsCalls,
                   [SettingsCall("updatePreferences", "update", settingsMount,
                      <<updatedPrefs(preferences[1],
                          [exchange_rate_cad_to_inr |-> rate[1]])>>)
                    EXCEPT !.outer = TRUE])
              /\ settingsToasts' = <<>>
  /\ UNCHANGED <<dbPreferences, nextPrefId, settingsOpen, settingsMount,
                 preferences, settingsExchangeRate, isDark>>
  /\ UNCHANGED <<debtVars, priorityVars, analyticsVars, morePageVars, txVars,
                 confirmsAccepted>>

\* the toast and state change with which updateExchangeRate goes on once
\* updatePreferences has returned: it returns normally on either outcome
afterUpdatePreferences(call) ==
  IF call.outer THEN <<Plain("Exchange rate updated successfully!")>> ELSE <<>>

\* user_preferences.update resolved: setPreferences, toast, finally
\* setLoading(false); then the rest of updateExchangeRate if it was the caller
updatePreferencesResolved(i) ==
  /\ settingsCalls[i].kind = "updatePreferences"
  /\ \E k \in DOMAIN dbPreferences :
       dbPreferences[k].id = settingsCalls[i].prefs[1].id
  /\ dbPreferences' = [k \in DOMAIN dbPreferences |->
                         IF dbPreferences[k].id = settingsCalls[i].prefs[1].id
                         THEN settingsCalls[i].prefs[1]
                         ELSE dbPreferences[k]]
  /\ settingsToasts' = <<Plain("Settings updated successfully!")>>
                          \o afterUpdatePreferences(settingsCalls[i])
  /\ IF Mounted(settingsCalls[i].mount)
     THEN /\ preferences' = settingsCalls[i].prefs
          /\ settingsLoading' = FALSE
          /\ isUpdatingRate' =
               IF settingsCalls[i].outer THEN FALSE ELSE isUpdatingRate
     ELSE UNCHANGED <<preferences, settingsLoading, isUpdatingRate>>
  /\ settingsCalls' = RemoveAt(settingsCalls, i)
  /\ UNCHANGED <<nextPrefId, settingsOpen, settingsMount,
                 settingsExchangeRate, isDark>>
  /\ UNCHANGED <<debtVars, priorityVars, analyticsVars, morePageVars, txVars,
                 confirmsAccepted>>

\* user_preferences.update rejected: the catch block of updatePreferences,
\* finally setLoading(false); then the rest of updateExchangeRate if it was
\* the caller
updatePreferencesRejected(i) ==
  /\ settingsCalls[i].kind = "updatePreferences"
  /\ settingsToasts' = <<Destructive("Failed to update settings")>>
                          \o afterUpdatePreferences(settingsCalls[i])
  /\ IF Mounted(settingsCalls[i].mount)
     THEN /\ settingsLoading' = FALSE
          /\ isUpdatingRate' =
               IF settingsCalls[i].outer THEN FALSE ELSE isUpdatingRate
     ELSE UNCHANGED <<settingsLoading, isUpdatingRate>>
  /\ settingsCalls' = RemoveAt(settingsCalls, i)
  /\ UNCHANGED <<dbPreferences, nextPrefId, settingsOpen, settingsMount,
                 preferences, settingsExchangeRate, isDark>>
  /\ UNCHANGED <<debtVars, priorityVars, analyticsVars, morePageVars, txVars,
                 confirmsAccepted>>

\* the export buttons (disabled while loading): exportData up to the await
\* of its three lists
exportData(format) ==
  /\ settingsOpen
  /\ ~settingsLoading
  /\ Len(settingsCalls) < MaxSettingsInFlight
  /\ settingsLoading' = TRUE
  /\ settingsCalls' = Append(settingsCalls,
       SettingsCall("exportData", format, settingsMount, <<>>))
  /\ settingsToasts' = <<>>
  /\ UNCHANGED <<dbPreferences, nextPrefId, settingsOpen, settingsMount,
                 preferences, settingsExchangeRate, isUpdatingRate, isDark>>
  /\ UNCHANGED <<debtVars, priorityVars, analyticsVars, morePageVars, txVars,
                 confirmsAccepted>>

\* the three lists resolved: the file is offered, toast, finally
\* setLoading(false)
exportDataResolved(i) ==
  /\ settingsCalls[i].kind = "exportData"
  /\ settingsToasts' =
       <<Plain(IF settingsCalls[i].pc = "json"
               THEN "Data exported successfully as JSON"
               ELSE "Data exported successfully as CSV")>>
  /\ settingsLoading' =
       IF Mounted(settingsCalls[i].mount) THEN FALSE ELSE settingsLoading
  /\ settingsCalls' = RemoveAt(settingsCalls, i)
  /\ UNCHANGED <<dbPreferences, nextPrefId, settingsOpen, settingsMount,
                 preferences, settingsExchangeRate, isUpdatingRate, isDark>>
  /\ UNCHANGED <<debtVars, priorityVars, analyticsVars, morePageVars, txVars,
                 confirmsAccepted>>

\* one of the three lists rejected: the catch block, finally setLoading(false)
exportDataRejected(i) ==
  /\ settingsCalls[i].kind = "exportData"
  /\ settingsToasts' = <<Destructive("Failed to export data")>>
  /\ settingsLoading' =
       IF Mounted(settingsCalls[i].mount) THEN FALSE ELSE settingsLoading
  /\ settingsCalls' = RemoveAt(settingsCalls, i)
  /\ UNCHANGED <<dbPreferences, nextPrefId, settingsOpen, settingsMount,
                 preferences, settingsExchangeRate, isUpdatingRate, isDark>>
  /\ UNCHANGED <<debtVars, priorityVars, analyticsVars, morePageVars, txVars,
                 confirmsAccepted>>

\* the records of a collection as they are in the remote store
\* the collections as a clearAllData that forgot the payments would list them
CollectionWithoutPayments(c) ==
  CASE c = "transactions"  -> dbTransactions
    [] c = "debts"         -> dbDebts
    [] c = "debt_payments" -> <<>>

Collection(c) ==
  CASE c = "transactions"  -> dbTransactions
    [] c = "debts"         -> dbDebts
    [] c = "debt_payments" -> dbPayments

\* a delete that takes the addressed record and every newer one
deleteRecordAndNewer(list, id) == SelectSeq(list, LAMBDA r : r.id < id)

\* the store's delete(id): the collection without the addressed record
deleteRecord(list, id) == SelectSeq(list, LAMBDA r : r.id # id)

\* the Clear All Data button (disabled while loading): confirm(...) answered
\* with ok, then, when accepted, clearAllData up to the await of Promise.all
clearAllData(ok) ==
  /\ settingsOpen
  /\ ~settingsLoading
  /\ IF ~ok
     THEN UNCHANGED <<settingsLoading, settingsCalls, confirmsAccepted>>
     ELSE /\ confirmsAccepted < MaxConfirms
          /\ Len(settingsCalls) < MaxSettingsInFlight
          /\ confirmsAccepted' = confirmsAccepted + 1
          /\ settingsLoading' = TRUE
          /\ settingsCalls' = Append(settingsCalls,
               [SettingsCall("clearAllData", "all", settingsMount, <<>>)
                EXCEPT !.lists = {"transactions", "debts", "debt_payments"}])
  /\ settingsToasts' = <<>>
  /\ UNCHANGED <<dbPreferences, nextPrefId, settingsOpen, settingsMount,
                 preferences, settingsExchangeRate, isUpdatingRate, isDark>>
  /\ UNCHANGED <<debtVars, priorityVars, analyticsVars, morePageVars, txVars>>

\* clearAllData once one of its calls has been answered, lists and deletes
\* being the calls still awaited and failed telling that the answer was a
\* rejection.  The first rejection takes the handler to its catch block;
\* with nothing left to await and no rejection, Promise.all resolves and the
\* success toast follows; finally setLoading(false).  The calls already
\* issued go on either way.
clearAllDataAnswered(i, lists, deletes, failed) ==
  LET call    == settingsCalls[i]
      settles == ~call.settled /\ (failed \/ (lists = {} /\ deletes = {}))
  IN  /\ settingsToasts' =
           IF ~settles THEN <<>>
           ELSE IF failed THEN <<Destructive("Failed to clear data")>>
           ELSE <<Plain("All data cleared successfully")>>
      /\ settingsLoading' =
           IF settles /\ Mounted(call.mount) THEN FALSE ELSE settingsLoading
      /\ settingsCalls' =
           IF lists = {} /\ deletes = {}
           THEN RemoveAt(settingsCalls, i)
           ELSE [settingsCalls EXCEPT
                   ![i].lists = lists,
                   ![i].deletes = deletes,
                   ![i].settled = call.settled \/ settles]

\* the list of the collection c resolved: a delete is issued for each record
clearAllDataListed(i, c) ==
  /\ settingsCalls[i].kind = "clearAllData"
  /\ c \in settingsCalls[i].lists
  /\ clearAllDataAnswered(i, settingsCalls[i].lists \ {c},
       settingsCalls[i].deletes \cup
         {[collection |-> c, id |-> r.id] : r \in Range(Collection(c))},
       FALSE)
  /\ UNCHANGED <<dbPreferences, nextPrefId, settingsOpen, settingsMount,
                 preferences, settingsExchangeRate, isUpdatingRate, isDark>>
  /\ UNCHANGED <<debtVars, priorityVars, analyticsVars, morePageVars, txVars,
                 confirmsAccepted>>

\* the delete d resolved
clearAllDataDeleted(i, d) ==
  /\ settingsCalls[i].kind = "clearAllData"
  /\ d \in settingsCalls[i].deletes
  /\ \E r \in Range(Collection(d.collection)) : r.id = d.id
  /\ dbTransactions' = IF d.collection = "transactions"
                       THEN deleteRecord(dbTransactions, d.id)
                       ELSE dbTransactions
  /\ dbDebts' = IF d.collection = "debts"
                THEN deleteRecord(dbDebts, d.id) ELSE dbDebts
  /\ dbPayments' = IF d.collection = "debt_payments"
                   THEN deleteRecord(dbPayments, d.id) ELSE dbPayments
  /\ clearAllDataAnswered(i, settingsCalls[i].lists,
       settingsCalls[i].deletes \ {d}, FALSE)
  /\ UNCHANGED <<dbPreferences, nextPrefId, settingsOpen, settingsMount,
                 preferences, settingsExchangeRate, isUpdatingRate, isDark>>
  /\ UNCHANGED <<debtPageVars, priorityVars, analyticsVars, morePageVars, txPageVars,
                 confirmsAccepted>>

\* the list of the collection c rejected
clearAllDataListRejected(i, c) ==
  /\ settingsCalls[i].kind = "clearAllData"
  /\ c \in settingsCalls[i].lists
  /\ clearAllDataAnswered(i, settingsCalls[i].lists \ {c},
       settingsCalls[i].deletes, TRUE)
  /\ UNCHANGED <<dbPreferences, nextPrefId, settingsOpen, settingsMount,
                 preferences, settingsExchangeRate, isUpdatingRate, isDark>>
  /\ UNCHANGED <<debtVars, priorityVars, analyticsVars, morePageVars, txVars,
                 confirmsAccepted>>

\* the delete d rejected
clearAllDataDeleteRejected(i, d) ==
  /\ settingsCalls[i].kind = "clearAllData"
  /\ d \in settingsCalls[i].deletes
  /\ clearAllDataAnswered(i, settingsCalls[i].lists,
       settingsCalls[i].deletes \ {d}, TRUE)
  /\ UNCHANGED <<dbPreferences, nextPrefId, settingsOpen, settingsMount,
                 preferences, settingsExchangeRate, isUpdatingRate, isDark>>
  /\ UNCHANGED <<debtVars, priorityVars, analyticsVars, morePageVars, txVars,
                 confirmsAccepted>>

(* --------------------------- AddTransaction --------------------------- *)
TRANSACTION_CATEGORIES ==
  [ income  |-> {"Salary", "Freelance", "Investment", "Gift", "Other Income"},
    expense |-> {"Food & Dining", "Transportation", "Shopping",
                 "Entertainment", "Bills & Utilities", "Healthcare",
                 "Education", "Travel", "Groceries", "Other Expense"} ]

\* the categories the user picks among, of those the selector lists
CategoryChoices == {"Salary", "Gift", "Groceries", "Travel"}

\* what the user types into the amount field (a number input)
AddAmounts == {<<"0">>, <<"1", "2", ".", "5">>}

\* new Date().toISOString().split('T')[0]: the UTC date of an instant
ISODate(t) ==
  (CHOOSE c \in DueDates : BaseDay + c.offset = t \div DayLength).text

\* useState({ amount: '', category: '', description: '', date: '' })
EmptyEditForm ==
  [amount |-> <<>>, category |-> "", description |-> "", date |-> <<>>]

TxCall(kind, pc, mount, record, id) ==
  [kind |-> kind, pc |-> pc, mount |-> mount, record |-> record, id |-> id]

\* a state setter called by an invocation of the mount m reaches the page
\* only while that mount is on screen
TxMounted(m) == txPage # "none" /\ txMount = m

TxInit ==
  /\ dbTransactions = <<>>
  /\ nextTransactionId = 1
  /\ txPage = "none"
  /\ txMount = 0
  /\ addType = "expense"
  /\ addAmount = <<>>
  /\ addCategory = ""
  /\ addDescription = ""
  /\ addDate = ISODate(now)
  /\ addLoading = FALSE
  /\ txToasts = <<>>
  /\ txCalls = <<>>
  /\ historyTransactions = <<>>
  /\ historyLoading = TRUE
  /\ editingTransaction = <<>>
  /\ editDialogOpen = FALSE
  /\ editForm = EmptyEditForm
  /\ confirmsAccepted = 0

\* the user opens the Add Transaction page: the component mounts with its
\* initial state
openAddTransaction ==
  /\ txPage # "add-transaction"
  /\ txMount < MaxTxMounts
  /\ txPage' = "add-transaction"
  /\ txMount' = txMount + 1
  /\ addType' = "expense"
  /\ addAmount' = <<>>
  /\ addCategory' = ""
  /\ addDescription' = ""
  /\ addDate' = ISODate(now)
  /\ addLoading' = FALSE
  /\ txToasts' = <<>>
  /\ UNCHANGED <<dbTransactions, nextTransactionId, txCalls>>
  /\ UNCHANGED <<debtVars, priorityVars, analyticsVars, morePageVars, settingsVars,
                 historyVars, confirmsAccepted>>

\* the Income and Expense cards: onClick={() => setType(t)}
setType(t) ==
  /\ txPage = "add-transaction"
  /\ addType' = t
  /\ txToasts' = <<>>
  /\ UNCHANGED <<dbTransactions, nextTransactionId, txPage, txMount,
                 addAmount, addCategory, addDescription, addDate, addLoading,
                 txCalls>>
  /\ UNCHANGED <<debtVars, priorityVars, analyticsVars, morePageVars, settingsVars,
                 historyVars, confirmsAccepted>>

setAmount(a) ==
  /\ txPage = "add-transaction"
  /\ addAmount' = a
  /\ txToasts' = <<>>
  /\ UNCHANGED <<dbTransactions, nextTransactionId, txPage, txMount, addType,
                 addCategory, addDescription, addDate, addLoading, txCalls>>
  /\ UNCHANGED <<debtVars, priorityVars, analyticsVars, morePageVars, settingsVars,
                 historyVars, confirmsAccepted>>

\* the category selector, which lists TRANSACTION_CATEGORIES[type]
setCategory(c) ==
  /\ txPage = "add-transaction"
  /\ c \in TRANSACTION_CATEGORIES[addType]
  /\ addCategory' = c
  /\ txToasts' = <<>>
  /\ UNCHANGED <<dbTransactions, nextTransactionId, txPage, txMount, addType,
                 addAmount, addDescription, addDate, addLoading, txCalls>>
  /\ UNCHANGED <<debtVars, priorityVars, analyticsVars, morePageVars, settingsVars,
                 historyVars, confirmsAccepted>>

setDescription(d) ==
  /\ txPage = "add-transaction"
  /\ addDescription' = d
  /\ txToasts' = <<>>
  /\ UNCHANGED <<dbTransactions, nextTransactionId, txPage, txMount, addType,
                 addAmount, addCategory, addDate, addLoading, txCalls>>
  /\ UNCHANGED <<debtVars, priorityVars, analyticsVars, morePageVars, settingsVars,
                 historyVars, confirmsAccepted>>

\* handleSubmit's two validations: "ok" or the toast's text
handleSubmitValidation(amount, category, description) ==
  IF amount = <<>> \/ category = "" \/ description = ""
  THEN "Please fill in all fields"
  ELSE IF isNaN(parseFloat(amount)) \/ parseFloat(amount)[1] <= 0
  THEN "Please enter a valid amount"
  ELSE "ok"

\* handleSubmit: const transaction = {...}  (user_id and the timestamps left out)
NewTransaction(id, type, category, amountCad, description, date) ==
  [ id            |-> id,
    type          |-> type,
    category      |-> category,
    amount_cad    |-> amountCad,
    amount_inr    |-> amountCad * exchangeRate,
    exchange_rate |-> exchangeRate,
    description   |-> description,
    date          |-> date ]

\* onSubmit of the form (its button is disabled while loading), up to the
\* await of transactions.create
handleSubmit ==
  /\ txPage = "add-transaction"
  /\ ~addLoading
  /\ LET v == handleSubmitValidation(addAmount, addCategory, addDescription)
     IN  IF v # "ok"
         THEN /\ txToasts' = <<Destructive(v)>>
              /\ UNCHANGED <<nextTransactionId, addLoading, txCalls>>
         ELSE /\ nextTransactionId <= MaxTxCreated
              /\ addLoading' = TRUE
              /\ txCalls' = Append(txCalls,
                   TxCall("handleSubmit", "create", txMount,
                          <<NewTransaction(nextTransactionId, addType,
                              addCategory, parseFloat(addAmount)[1],
                              addDescription, addDate)>>, 0))
              /\ nextTransactionId' = nextTransactionId + 1
              /\ txToasts' = <<>>
  /\ UNCHANGED <<dbTransactions, txPage, txMount, addType, addAmount,
                 addCategory, addDescription, addDate>>
  /\ UNCHANGED <<debtVars, priorityVars, analyticsVars, morePageVars, settingsVars,
                 historyVars, confirmsAccepted>>

\* transactions.create resolved: toast, form reset, finally setLoading(false)
handleSubmitCreated(i) ==
  /\ txCalls[i].kind = "handleSubmit"
  /\ dbTransactions' = Append(dbTransactions, txCalls[i].record[1])
  /\ txToasts' = <<Plain(IF txCalls[i].record[1].type = "income"
                         THEN "Income added successfully!"
                         ELSE "Expense added successfully!")>>
  /\ IF TxMounted(txCalls[i].mount)
     THEN /\ addAmount' = <<>>
          /\ addCategory' = ""
          /\ addDescription' = ""
          /\ addDate' = ISODate(now)
          /\ addLoading' = FALSE
     ELSE UNCHANGED <<addAmount, addCategory, addDescription, addDate,
                      addLoading>>
  /\ txCalls' = RemoveAt(txCalls, i)
  /\ UNCHANGED <<nextTransactionId, txPage, txMount, addType>>
  /\ UNCHANGED <<debtVars, priorityVars, analyticsVars, morePageVars, settingsVars,
                 historyVars, confirmsAccepted>>

\* transactions.create rejected: the catch block, finally setLoading(false)
handleSubmitRejected(i) ==
  /\ txCalls[i].kind = "handleSubmit"
  /\ txToasts' = <<Destructive("Failed to add transaction")>>
  /\ addLoading' = IF TxMounted(txCalls[i].mount) THEN FALSE ELSE addLoading
  /\ txCalls' = RemoveAt(txCalls, i)
  /\ UNCHANGED <<dbTransactions, nextTransactionId, txPage, txMount, addType,
                 addAmount, addCategory, addDescription, addDate>>
  /\ UNCHANGED <<debtVars, priorityVars, analyticsVars, morePageVars, settingsVars,
                 historyVars, confirmsAccepted>>

\* the user leaves the transaction page on screen: the component unmounts
closeTransactionPage ==
  /\ txPage # "none"
  /\ txPage' = "none"
  /\ txToasts' = <<>>
  /\ UNCHANGED <<dbTransactions, nextTransactionId, txMount, addVars,
                 historyVars, txCalls>>
  /\ UNCHANGED <<debtVars, priorityVars, analyticsVars, morePageVars, settingsVars,
                 confirmsAccepted>>

(* ------------------------- TransactionHistory -------------------------- *)
\* what the user types into the edit form's amount field
EditAmounts == {<<"0">>, <<"2", "0">>}

\* the list call's orderBy: { date: 'desc' }, ties in the store's order
RECURSIVE orderByDateDesc(_)
orderByDateDesc(list) ==
  IF list = <<>> THEN <<>>
  ELSE LET sorted == orderByDateDesc(SubSeq(list, 1, Len(list) - 1))
           e      == list[Len(list)]
           at     == Cardinality({k \in DOMAIN sorted :
                                    ~TextLess(sorted[k].date, e.date)})
       IN  SubSeq(sorted, 1, at) \o <<e>> \o SubSeq(sorted, at + 1, Len(sorted))

TransactionStoreHas(id) == \E k \in DOMAIN dbTransactions : dbTransactions[k].id = id

\* the page reacts to the user: it is on screen and past its loading skeleton
HistoryInteractive == txPage = "history" /\ ~historyLoading

\* the user opens the Transaction History page: the component mounts with its
\* initial state and its effect calls loadTransactions()
openHistory ==
  /\ txPage # "history"
  /\ txMount < MaxTxMounts
  /\ txPage' = "history"
  /\ txMount' = txMount + 1
  /\ historyTransactions' = <<>>
  /\ historyLoading' = TRUE
  /\ editingTransaction' = <<>>
  /\ editDialogOpen' = FALSE
  /\ editForm' = EmptyEditForm
  /\ txCalls' = Append(txCalls,
       TxCall("loadTransactions", "list", txMount + 1, <<>>, 0))
  /\ txToasts' = <<>>
  /\ UNCHANGED <<dbTransactions, nextTransactionId, addVars>>
  /\ UNCHANGED <<debtVars, priorityVars, analyticsVars, morePageVars, settingsVars,
                 confirmsAccepted>>

\* transactions.list resolved: setTransactions, finally setLoading(false)
loadTransactionsResolved(i) ==
  /\ txCalls[i].kind = "loadTransactions"
  /\ IF TxMounted(txCalls[i].mount)
     THEN /\ historyTransactions' = orderByDateDesc(dbTransactions)
          /\ historyLoading' = FALSE
     ELSE UNCHANGED <<historyTransactions, historyLoading>>
  /\ txCalls' = RemoveAt(txCalls, i)
  /\ txToasts' = <<>>
  /\ UNCHANGED <<dbTransactions, nextTransactionId, txPage, txMount, addVars,
                 editingTransaction, editDialogOpen, editForm>>
  /\ UNCHANGED <<debtVars, priorityVars, analyticsVars, morePageVars, settingsVars,
                 confirmsAccepted>>

\* transactions.list rejected: the catch block, finally setLoading(false)
loadTransactionsRejected(i) ==
  /\ txCalls[i].kind = "loadTransactions"
  /\ historyLoading' =
       IF TxMounted(txCalls[i].mount) THEN FALSE ELSE historyLoading
  /\ txCalls' = RemoveAt(txCalls, i)
  /\ txToasts' = <<Destructive("Failed to load transactions")>>
  /\ UNCHANGED <<dbTransactions, nextTransactionId, txPage, txMount, addVars,
                 historyTransactions, editingTransaction, editDialogOpen,
                 editForm>>
  /\ UNCHANGED <<debtVars, priorityVars, analyticsVars, morePageVars, settingsVars,
                 confirmsAccepted>>

\* the Edit button of a row
handleEditTransaction(k) ==
  /\ HistoryInteractive
  /\ ~editDialogOpen
  /\ k \in DOMAIN historyTransactions
  /\ editingTransaction' = <<historyTransactions[k]>>
  /\ editForm' = [ amount      |-> toString(historyTransactions[k].amount_cad),
                   category    |-> historyTransactions[k].category,
                   description |-> historyTransactions[k].description,
                   date        |-> historyTransactions[k].date ]
  /\ editDialogOpen' = TRUE
  /\ txToasts' = <<>>
  /\ UNCHANGED <<dbTransactions, nextTransactionId, txPage, txMount, addVars,
                 historyTransactions, historyLoading, txCalls>>
  /\ UNCHANGED <<debtVars, priorityVars, analyticsVars, morePageVars, settingsVars,
                 confirmsAccepted>>

\* a field of the edit dialog; its category selector lists
\* TRANSACTION_CATEGORIES[editingTransaction.type]
setEditForm(f) ==
  /\ HistoryInteractive
  /\ editDialogOpen
  /\ editingTransaction # <<>>
  /\ f.category # editForm.category
       => f.category \in TRANSACTION_CATEGORIES[editingTransaction[1].type]
  /\ editForm' = f
  /\ txToasts' = <<>>
  /\ UNCHANGED <<dbTransactions, nextTransactionId, txPage, txMount, addVars,
                 historyTransactions, historyLoading, editingTransaction,
                 editDialogOpen, txCalls>>
  /\ UNCHANGED <<debtVars, priorityVars, analyticsVars, morePageVars, settingsVars,
                 confirmsAccepted>>

\* the dialog's Cancel button and its onOpenChange
setEditDialogOpen(b) ==
  /\ HistoryInteractive
  /\ editDialogOpen
  /\ editDialogOpen' = b
  /\ txToasts' = <<>>
  /\ UNCHANGED <<dbTransactions, nextTransactionId, txPage, txMount, addVars,
                 historyTransactions, historyLoading, editingTransaction,
                 editForm, txCalls>>
  /\ UNCHANGED <<debtVars, priorityVars, analyticsVars, morePageVars, settingsVars,
                 confirmsAccepted>>

\* handleUpdateTransaction with the secondary amount left as it was
updatedTransactionInrKept(editing, form) ==
  [editing EXCEPT
     !.amount_cad  = parseFloat(form.amount)[1],
     !.category    = form.category,
     !.description = form.description,
     !.date        = form.date]

\* handleUpdateTransaction: const updatedTransaction = {...editingTransaction, ...}
updatedTransaction(editing, form) ==
  [editing EXCEPT
     !.amount_cad  = parseFloat(form.amount)[1],
     !.amount_inr  = parseFloat(form.amount)[1] * exchangeRate,
     !.category    = form.category,
     !.description = form.description,
     !.date        = form.date]

\* onSubmit of the edit form, up to the await of transactions.update
handleUpdateTransaction ==
  /\ HistoryInteractive
  /\ editDialogOpen
  /\ editingTransaction # <<>>
  /\ IF isNaN(parseFloat(editForm.amount)) \/ parseFloat(editForm.amount)[1] <= 0
     THEN /\ txToasts' = <<Destructive("Please enter a valid amount")>>
          /\ UNCHANGED txCalls
     ELSE /\ Len(txCalls) < MaxTxInFlight
          /\ txCalls' = Append(txCalls,
               TxCall("handleUpdateTransaction", "update", txMount,
                      <<updatedTransaction(editingTransaction[1], editForm)>>,
                      editingTransaction[1].id))
          /\ txToasts' = <<>>
  /\ UNCHANGED <<dbTransactions, nextTransactionId, txPage, txMount, addVars,
                 historyVars>>
  /\ UNCHANGED <<debtVars, priorityVars, analyticsVars, morePageVars, settingsVars,
                 confirmsAccepted>>

\* transactions.update resolved: toast, dialog closed, loadTransactions()
handleUpdateTransactionResolved(i) ==
  /\ txCalls[i].kind = "handleUpdateTransaction"
  /\ TransactionStoreHas(txCalls[i].id)
  /\ dbTransactions' = [k \in DOMAIN dbTransactions |->
                          IF dbTransactions[k].id = txCalls[i].id
                          THEN txCalls[i].record[1]
                          ELSE dbTransactions[k]]
  /\ txToasts' = <<Plain("Transaction updated successfully!")>>
  /\ IF TxMounted(txCalls[i].mount)
     THEN /\ editDialogOpen' = FALSE
          /\ editingTransaction' = <<>>
          /\ historyLoading' = TRUE
     ELSE UNCHANGED <<editDialogOpen, editingTransaction, historyLoading>>
  /\ txCalls' = Append(RemoveAt(txCalls, i),
       TxCall("loadTransactions", "list", txCalls[i].mount, <<>>, 0))
  /\ UNCHANGED <<nextTransactionId, txPage, txMount, addVars,
                 historyTransactions, editForm>>
  /\ UNCHANGED <<debtVars, priorityVars, analyticsVars, morePageVars, settingsVars,
                 confirmsAccepted>>

\* transactions.update rejected: the catch block
handleUpdateTransactionRejected(i) ==
  /\ txCalls[i].kind = "handleUpdateTransaction"
  /\ txToasts' = <<Destructive("Failed to update transaction")>>
  /\ txCalls' = RemoveAt(txCalls, i)
  /\ UNCHANGED <<dbTransactions, nextTransactionId, txPage, txMount, addVars,
                 historyVars>>
  /\ UNCHANGED <<debtVars, priorityVars, analyticsVars, morePageVars, settingsVars,
                 confirmsAccepted>>

\* the Delete button of a row: confirm(...) answered with ok, then, when
\* accepted, up to the await of transactions.delete
handleDeleteTransaction(k, ok) ==
  /\ HistoryInteractive
  /\ ~editDialogOpen
  /\ k \in DOMAIN historyTransactions
  /\ IF ~ok
     THEN UNCHANGED <<txCalls, confirmsAccepted>>
     ELSE /\ confirmsAccepted < MaxConfirms
          /\ Len(txCalls) < MaxTxInFlight
          /\ confirmsAccepted' = confirmsAccepted + 1
          /\ txCalls' = Append(txCalls,
               TxCall("handleDeleteTransaction", "delete", txMount, <<>>,
                      historyTransactions[k].id))
  /\ txToasts' = <<>>
  /\ UNCHANGED <<dbTransactions, nextTransactionId, txPage, txMount, addVars,
                 historyVars>>
  /\ UNCHANGED <<debtVars, priorityVars, analyticsVars, morePageVars, settingsVars>>

\* transactions.delete resolved: toast, loadTransactions()
handleDeleteTransactionResolved(i) ==
  /\ txCalls[i].kind = "handleDeleteTransaction"
  /\ TransactionStoreHas(txCalls[i].id)
  /\ dbTransactions' = SelectSeq(dbTransactions, LAMBDA t : t.id # txCalls[i].id)
  /\ txToasts' = <<Plain("Transaction deleted successfully")>>
  /\ historyLoading' =
       IF TxMounted(txCalls[i].mount) THEN TRUE ELSE historyLoading
  /\ txCalls' = Append(RemoveAt(txCalls, i),
       TxCall("loadTransactions", "list", txCalls[i].mount, <<>>, 0))
  /\ UNCHANGED <<nextTransactionId, txPage, txMount, addVars,
                 historyTransactions, editingTransaction, editDialogOpen,
                 editForm>>
  /\ UNCHANGED <<debtVars, priorityVars, analyticsVars, morePageVars, settingsVars,
                 confirmsAccepted>>

\* transactions.delete rejected: the catch block
handleDeleteTransactionRejected(i) ==
  /\ txCalls[i].kind = "handleDeleteTransaction"
  /\ txToasts' = <<Destructive("Failed to delete transaction")>>
  /\ txCalls' = RemoveAt(txCalls, i)
  /\ UNCHANGED <<dbTransactions, nextTransactionId, txPage, txMount, addVars,
                 historyVars>>
  /\ UNCHANGED <<debtVars, priorityVars, analyticsVars, morePageVars, settingsVars,
                 confirmsAccepted>>

(* ------------------------- Analytics: loadData ----------------------- *)
\* The calendar of Date, with the local time zone taken to be UTC: an instant
\* is a number of seconds since the epoch.  The day number of a civil date
\* (month 1..12) and the civil date of a day number.
DaysFromCivil(year, month, day) ==
  LET y   == IF month <= 2 THEN year - 1 ELSE year
      era == y \div 400
      yoe == y - era * 400
      mp  == IF month > 2 THEN month - 3 ELSE month + 9
      doy == (153 * mp + 2) \div 5 + day - 1
      doe == yoe * 365 + yoe \div 4 - yoe \div 100 + doy
  IN  era * 146097 + doe - 719468

CivilFromDays(z) ==
  LET zz  == z + 719468
      era == zz \div 146097
      doe == zz - era * 146097
      yoe == (doe - doe \div 1460 + doe \div 36524 - doe \div 146096) \div 365
      doy == doe - (365 * yoe + yoe \div 4 - yoe \div 100)
      mp  == (5 * doy + 2) \div 153
      m   == IF mp < 10 THEN mp + 3 ELSE mp - 9
  IN  [year  |-> yoe + era * 400 + (IF m <= 2 THEN 1 ELSE 0),
       month |-> m,
       day   |-> doy - (153 * mp + 2) \div 5 + 1]

\* new Date(t.date) of a 'YYYY-MM-DD' text: that day's midnight, UTC
newDate(text) ==
  DaysFromCivil(DigitsVal(SubSeq(text, 1, 4)), DigitsVal(SubSeq(text, 6, 7)),
                DigitsVal(SubSeq(text, 9, 10))) * DayLength

\* Date.getMonth (0..11) and Date.getFullYear
getMonth(t) == CivilFromDays(t \div DayLength).month - 1
getFullYear(t) == CivilFromDays(t \div DayLength).year

\* Date.setMonth: the month index may be negative, and a day of the month the
\* month does not have runs on into the next month
setMonth(t, month) ==
  LET c      == CivilFromDays(t \div DayLength)
      months == c.year * 12 + month
  IN  (DaysFromCivil(months \div 12, (months % 12) + 1, 1) + c.day - 1) * DayLength
        + (t % DayLength)

\* Date.setFullYear
setFullYear(t, year) ==
  LET c == CivilFromDays(t \div DayLength)
  IN  (DaysFromCivil(year, c.month, 1) + c.day - 1) * DayLength + (t % DayLength)

\* the items of the time range select
TimeRanges == {"1month", "3months", "6months", "1year"}

\* loadData's switch (timeRange): startDate for an endDate
startDate(range, endDate) ==
  CASE range = "1month"  -> setMonth(endDate, getMonth(endDate) - 1)
    [] range = "3months" -> setMonth(endDate, getMonth(endDate) - 3)
    [] range = "6months" -> setMonth(endDate, getMonth(endDate) - 6)
    [] range = "1year"   -> setFullYear(endDate, getFullYear(endDate) - 1)
    [] OTHER             -> setMonth(endDate, getMonth(endDate) - 6)

\* allTransactions.filter(t => transactionDate >= startDate &&
\* transactionDate <= endDate)
filteredTransactions(allTransactions, start, end) ==
  SelectSeq(allTransactions,
            LAMBDA t : newDate(t.date) >= start /\ newDate(t.date) <= end)

\* A suspended loadData: the mount it belongs to, the range it was created
\* for with its two dates, and what its two list calls have answered so far
\* (<<>> while a list is awaited, <<list>> once it resolved).
LoadDataCall(mount, range, endDate) ==
  [mount |-> mount, range |-> range, startDate |-> startDate(range, endDate),
   endDate |-> endDate, allTransactions |-> <<>>, allDebts |-> <<>>]

\* a state setter called by an invocation of the mount m reaches the
\* component only while that mount is on the page
AnalyticsMounted(m) == analyticsOpen /\ analyticsMount = m

\* the user opens the Analytics page: the component mounts with its initial
\* state and its effect calls loadData()
openAnalytics ==
  /\ ~analyticsOpen
  /\ analyticsMount < MaxAnalyticsMounts
  /\ Len(analyticsCalls) < MaxAnalyticsInFlight
  /\ analyticsOpen' = TRUE
  /\ analyticsMount' = analyticsMount + 1
  /\ analyticsLoading' = TRUE
  /\ transactions' = <<>>
  /\ analyticsDebts' = <<>>
  /\ timeRange' = "6months"
  /\ analyticsCalls' = Append(analyticsCalls,
       LoadDataCall(analyticsMount + 1, "6months", now))
  /\ UNCHANGED <<monthlyData, expenseCategories, incomeCategories>>
  /\ UNCHANGED <<debtVars, priorityVars, restVars>>

\* the user leaves the Analytics page: the component unmounts
closeAnalytics ==
  /\ analyticsOpen
  /\ analyticsOpen' = FALSE
  /\ UNCHANGED <<analyticsMount, analyticsLoading, analyticsDebts, timeRange,
                 analyticsCalls>>
  /\ UNCHANGED <<transactions, monthlyData, expenseCategories,
                 incomeCategories>>
  /\ UNCHANGED <<debtVars, priorityVars, restVars>>

\* the time range select, rendered once loading is false: setTimeRange, and
\* the effect calls the loadData made for the new range
setTimeRange(range) ==
  /\ analyticsOpen
  /\ ~analyticsLoading
  /\ range # timeRange
  /\ Len(analyticsCalls) < MaxAnalyticsInFlight
  /\ timeRange' = range
  /\ analyticsLoading' = TRUE
  /\ analyticsCalls' = Append(analyticsCalls,
       LoadDataCall(analyticsMount, range, now))
  /\ UNCHANGED <<analyticsOpen, analyticsMount, analyticsDebts>>
  /\ UNCHANGED <<transactions, monthlyData, expenseCategories,
                 incomeCategories>>
  /\ UNCHANGED <<debtVars, priorityVars, restVars>>

\* the provider's onAuthStateChanged callback hands the page a new user
\* object of the same id: loadData, made with [user, timeRange], is made
\* anew and the effect that depends on it calls it
onAuthStateChanged ==
  /\ analyticsOpen
  /\ Len(analyticsCalls) < MaxAnalyticsInFlight
  /\ analyticsLoading' = TRUE
  /\ analyticsCalls' = Append(analyticsCalls,
       LoadDataCall(analyticsMount, timeRange, now))
  /\ UNCHANGED <<analyticsOpen, analyticsMount, analyticsDebts, timeRange>>
  /\ UNCHANGED <<transactions, monthlyData, expenseCategories,
                 incomeCategories>>
  /\ UNCHANGED <<debtVars, priorityVars, restVars>>

\* transactions.list of a loadData resolved, the debts list may be pending
loadDataTransactionsListed(i) ==
  /\ analyticsCalls[i].allTransactions = <<>>
  /\ analyticsCalls' = [analyticsCalls EXCEPT
       ![i].allTransactions = <<orderByDateDesc(dbTransactions)>>]
  /\ UNCHANGED <<analyticsOpen, analyticsMount, analyticsLoading,
                 analyticsDebts, timeRange>>
  /\ UNCHANGED <<transactions, monthlyData, expenseCategories,
                 incomeCategories>>
  /\ UNCHANGED <<debtVars, priorityVars, restVars>>

\* debts.list of a loadData resolved, the transactions list may be pending
loadDataDebtsListed(i) ==
  /\ analyticsCalls[i].allDebts = <<>>
  /\ analyticsCalls' = [analyticsCalls EXCEPT ![i].allDebts = <<dbDebts>>]
  /\ UNCHANGED <<analyticsOpen, analyticsMount, analyticsLoading,
                 analyticsDebts, timeRange>>
  /\ UNCHANGED <<transactions, monthlyData, expenseCategories,
                 incomeCategories>>
  /\ UNCHANGED <<debtVars, priorityVars, restVars>>

\* a loadData that shows what has arrived when one of its lists fails
loadDataRejectedPartial(i) ==
  /\ analyticsCalls[i].allTransactions = <<>> \/ analyticsCalls[i].allDebts = <<>>
  /\ IF AnalyticsMounted(analyticsCalls[i].mount)
     THEN /\ analyticsLoading' = FALSE
          /\ transactions' =
               IF analyticsCalls[i].allTransactions = <<>> THEN transactions
               ELSE filteredTransactions(analyticsCalls[i].allTransactions[1],
                      analyticsCalls[i].startDate, analyticsCalls[i].endDate)
          /\ analyticsDebts' =
               IF analyticsCalls[i].allDebts = <<>> THEN analyticsDebts
               ELSE analyticsCalls[i].allDebts[1]
     ELSE UNCHANGED <<analyticsLoading, transactions, analyticsDebts>>
  /\ analyticsCalls' = RemoveAt(analyticsCalls, i)
  /\ UNCHANGED <<analyticsOpen, analyticsMount, timeRange>>
  /\ UNCHANGED <<monthlyData, expenseCategories, incomeCategories>>
  /\ UNCHANGED <<debtVars, priorityVars, restVars>>

\* Promise.all resolved: the filter, setTransactions, setDebts, finally
\* setLoading(false)
loadDataResolved(i) ==
  /\ analyticsCalls[i].allTransactions # <<>>
  /\ analyticsCalls[i].allDebts # <<>>
  /\ IF AnalyticsMounted(analyticsCalls[i].mount)
     THEN /\ transactions' =
               filteredTransactions(analyticsCalls[i].allTransactions[1],
                 analyticsCalls[i].startDate, analyticsCalls[i].endDate)
          /\ analyticsDebts' = analyticsCalls[i].allDebts[1]
          /\ analyticsLoading' = FALSE
     ELSE UNCHANGED <<transactions, analyticsDebts, analyticsLoading>>
  /\ analyticsCalls' = RemoveAt(analyticsCalls, i)
  /\ UNCHANGED <<analyticsOpen, analyticsMount, timeRange>>
  /\ UNCHANGED <<monthlyData, expenseCategories, incomeCategories>>
  /\ UNCHANGED <<debtVars, priorityVars, restVars>>

\* a list of a loadData rejected while Promise.all was pending: the catch
\* block (console.error), finally setLoading(false)
loadDataRejected(i) ==
  /\ analyticsCalls[i].allTransactions = <<>> \/ analyticsCalls[i].allDebts = <<>>
  /\ IF AnalyticsMounted(analyticsCalls[i].mount)
     THEN analyticsLoading' = FALSE
     ELSE UNCHANGED analyticsLoading
  /\ analyticsCalls' = RemoveAt(analyticsCalls, i)
  /\ UNCHANGED <<analyticsOpen, analyticsMount, analyticsDebts, timeRange>>
  /\ UNCHANGED <<transactions, monthlyData, expenseCategories,
                 incomeCategories>>
  /\ UNCHANGED <<debtVars, priorityVars, restVars>>

(* ---------------------------- FamilyAccess ---------------------------- *)
\* user.email of the signed-in user, and the addresses typed into the field
userEmail == <<"o", "@", "x">>
FamilyEmails == {<<"a", "@", "x">>, userEmail}

\* String.prototype.includes for one character
includes(text, c) == \E k \in DOMAIN text : text[k] = c

FamilyCall(kind, mount, member, id, status) ==
  [kind |-> kind, mount |-> mount, member |-> member, id |-> id,
   status |-> status]

\* a state setter called by an invocation of the mount m reaches the
\* component only while that mount is on the page
FamilyMounted(m) == familyOpen /\ familyMount = m

DashboardInit ==
  /\ dashboardTransactions = <<>>
  /\ dashboardDebts = <<>>
  /\ dashboardLoading = TRUE
  /\ dashboardCalls = <<>>
  /\ dashboardTotals = <<>>
  /\ quickStats = <<>>

FamilyInit ==
  /\ dbFamily = <<>>
  /\ nextFamilyId = 1
  /\ familyOpen = FALSE
  /\ familyMount = 0
  /\ familyMembers = <<>>
  /\ familyLoading = TRUE
  /\ familyDialogOpen = FALSE
  /\ newMemberEmail = <<>>
  /\ familyToasts = <<>>
  /\ familyCalls = <<>>

\* the page reacts to the user: it is on screen and past its loading skeleton
FamilyInteractive == familyOpen /\ ~familyLoading

FamilyStoreHas(id) == \E k \in DOMAIN dbFamily : dbFamily[k].id = id

\* loadFamilyMembers() called by an invocation of the mount m, up to the
\* await of the list: setLoading(true), cs being the invocations that remain
loadFamilyMembers(cs, m) ==
  /\ familyLoading' = IF FamilyMounted(m) THEN TRUE ELSE familyLoading
  /\ familyCalls' = Append(cs, FamilyCall("loadFamilyMembers", m, <<>>, 0, ""))

\* the user opens the Family Access page: the component mounts with its
\* initial state and its effect calls loadFamilyMembers()
openFamily ==
  /\ ~familyOpen
  /\ familyMount < MaxFamilyMounts
  /\ Len(familyCalls) < MaxFamilyInFlight
  /\ familyOpen' = TRUE
  /\ familyMount' = familyMount + 1
  /\ familyMembers' = <<>>
  /\ familyLoading' = TRUE
  /\ familyDialogOpen' = FALSE
  /\ newMemberEmail' = <<>>
  /\ familyToasts' = <<>>
  /\ familyCalls' = Append(familyCalls,
       FamilyCall("loadFamilyMembers", familyMount + 1, <<>>, 0, ""))
  /\ UNCHANGED <<dbFamily, nextFamilyId>>
  /\ UNCHANGED <<debtVars, priorityVars, analyticsVars, settingsVars, txVars,
                 confirmsAccepted, dashboardVars>>

\* the user leaves the Family Access page: the component unmounts
closeFamily ==
  /\ familyOpen
  /\ familyOpen' = FALSE
  /\ familyToasts' = <<>>
  /\ UNCHANGED <<dbFamily, nextFamilyId, familyMount, familyMembers,
                 familyLoading, familyDialogOpen, newMemberEmail, familyCalls>>
  /\ UNCHANGED <<debtVars, priorityVars, analyticsVars, settingsVars, txVars,
                 confirmsAccepted, dashboardVars>>

\* family_access.list resolved (orderBy created_at desc: newest first):
\* setFamilyMembers, finally setLoading(false)
loadFamilyMembersResolved(i) ==
  /\ familyCalls[i].kind = "loadFamilyMembers"
  /\ IF FamilyMounted(familyCalls[i].mount)
     THEN /\ familyMembers' = Reverse(dbFamily)
          /\ familyLoading' = FALSE
     ELSE UNCHANGED <<familyMembers, familyLoading>>
  /\ familyToasts' = <<>>
  /\ familyCalls' = RemoveAt(familyCalls, i)
  /\ UNCHANGED <<dbFamily, nextFamilyId, familyOpen, familyMount,
                 familyDialogOpen, newMemberEmail>>
  /\ UNCHANGED <<debtVars, priorityVars, analyticsVars, settingsVars, txVars,
                 confirmsAccepted, dashboardVars>>

\* family_access.list rejected: the catch block, finally setLoading(false)
loadFamilyMembersRejected(i) ==
  /\ familyCalls[i].kind = "loadFamilyMembers"
  /\ familyLoading' = IF FamilyMounted(familyCalls[i].mount) THEN FALSE
                      ELSE familyLoading
  /\ familyToasts' = <<Destructive("Failed to load family members")>>
  /\ familyCalls' = RemoveAt(familyCalls, i)
  /\ UNCHANGED <<dbFamily, nextFamilyId, familyOpen, familyMount,
                 familyMembers, familyDialogOpen, newMemberEmail>>
  /\ UNCHANGED <<debtVars, priorityVars, analyticsVars, settingsVars, txVars,
                 confirmsAccepted, dashboardVars>>

\* the dialog's trigger, its Cancel button and its onOpenChange
setFamilyDialogOpen(open) ==
  /\ FamilyInteractive
  /\ familyDialogOpen # open
  /\ familyDialogOpen' = open
  /\ familyToasts' = <<>>
  /\ UNCHANGED <<dbFamily, nextFamilyId, familyOpen, familyMount,
                 familyMembers, familyLoading, newMemberEmail, familyCalls>>
  /\ UNCHANGED <<debtVars, priorityVars, analyticsVars, settingsVars, txVars,
                 confirmsAccepted, dashboardVars>>

\* the email field's onChange
setNewMemberEmail(text) ==
  /\ FamilyInteractive
  /\ familyDialogOpen
  /\ newMemberEmail' = text
  /\ familyToasts' = <<>>
  /\ UNCHANGED <<dbFamily, nextFamilyId, familyOpen, familyMount,
                 familyMembers, familyLoading, familyDialogOpen, familyCalls>>
  /\ UNCHANGED <<debtVars, priorityVars, analyticsVars, settingsVars, txVars,
                 confirmsAccepted, dashboardVars>>

\* The three checks of addFamilyMember: "ok" or the toast's text.
addFamilyMemberValidation(email, members) ==
  IF email = <<>> \/ ~includes(email, "@")
  THEN "Please enter a valid email address"
  ELSE IF email = userEmail
  THEN "You cannot add yourself as a family member"
  ELSE IF \E k \in DOMAIN members : members[k].member_email = email
  THEN "This email is already added as a family member"
  ELSE "ok"

\* const familyMember: FamilyAccess = {...}
NewFamilyMember(id, email, t) ==
  [ id           |-> id,
    member_email |-> email,
    access_level |-> "view",
    is_active    |-> "1",
    created_at   |-> t,
    updated_at   |-> t ]

\* onSubmit of the dialog's form (the field is required, of type email), up
\* to the await of family_access.create
addFamilyMember ==
  /\ FamilyInteractive
  /\ familyDialogOpen
  /\ newMemberEmail # <<>>
  /\ LET v == addFamilyMemberValidation(newMemberEmail, familyMembers)
     IN  IF v # "ok"
         THEN /\ familyToasts' = <<Destructive(v)>>
              /\ UNCHANGED <<nextFamilyId, familyCalls>>
         ELSE /\ nextFamilyId <= MaxFamilyCreated
              /\ Len(familyCalls) < MaxFamilyInFlight
              /\ familyCalls' = Append(familyCalls,
                   FamilyCall("addFamilyMember", familyMount,
                     <<NewFamilyMember(nextFamilyId, newMemberEmail, now)>>,
                     nextFamilyId, ""))
              /\ nextFamilyId' = nextFamilyId + 1
              /\ familyToasts' = <<>>
  /\ UNCHANGED <<dbFamily, familyOpen, familyMount, familyMembers,
                 familyLoading, familyDialogOpen, newMemberEmail>>
  /\ UNCHANGED <<debtVars, priorityVars, analyticsVars, settingsVars, txVars,
                 confirmsAccepted, dashboardVars>>

\* family_access.create resolved: toast, field reset, dialog closed,
\* loadFamilyMembers()
addFamilyMemberCreated(i) ==
  /\ familyCalls[i].kind = "addFamilyMember"
  /\ dbFamily' = Append(dbFamily, familyCalls[i].member[1])
  /\ familyToasts' = <<Plain("Family member added successfully!")>>
  /\ IF FamilyMounted(familyCalls[i].mount)
     THEN /\ newMemberEmail' = <<>>
          /\ familyDialogOpen' = FALSE
     ELSE UNCHANGED <<newMemberEmail, familyDialogOpen>>
  /\ loadFamilyMembers(RemoveAt(familyCalls, i), familyCalls[i].mount)
  /\ UNCHANGED <<nextFamilyId, familyOpen, familyMount, familyMembers>>
  /\ UNCHANGED <<debtVars, priorityVars, analyticsVars, settingsVars, txVars,
                 confirmsAccepted, dashboardVars>>

\* family_access.create rejected: the catch block
addFamilyMemberRejected(i) ==
  /\ familyCalls[i].kind = "addFamilyMember"
  /\ familyToasts' = <<Destructive("Failed to add family member")>>
  /\ familyCalls' = RemoveAt(familyCalls, i)
  /\ UNCHANGED <<dbFamily, nextFamilyId, familyOpen, familyMount,
                 familyMembers, familyLoading, familyDialogOpen,
                 newMemberEmail>>
  /\ UNCHANGED <<debtVars, priorityVars, analyticsVars, settingsVars, txVars,
                 confirmsAccepted, dashboardVars>>

\* the enable / disable button of a member's row, up to the await of
\* family_access.update
toggleMemberAccess(k) ==
  /\ FamilyInteractive
  /\ k \in DOMAIN familyMembers
  /\ Len(familyCalls) < MaxFamilyInFlight
  /\ familyCalls' = Append(familyCalls,
       FamilyCall("toggleMemberAccess", familyMount, <<>>,
                  familyMembers[k].id,
                  IF familyMembers[k].is_active = "1" THEN "0" ELSE "1"))
  /\ familyToasts' = <<>>
  /\ UNCHANGED <<dbFamily, nextFamilyId, familyOpen, familyMount,
                 familyMembers, familyLoading, familyDialogOpen,
                 newMemberEmail>>
  /\ UNCHANGED <<debtVars, priorityVars, analyticsVars, settingsVars, txVars,
                 confirmsAccepted, dashboardVars>>

\* family_access.update resolved: toast, loadFamilyMembers()
toggleMemberAccessUpdated(i) ==
  /\ familyCalls[i].kind = "toggleMemberAccess"
  /\ FamilyStoreHas(familyCalls[i].id)
  /\ dbFamily' = [k \in DOMAIN dbFamily |->
                    IF dbFamily[k].id = familyCalls[i].id
                    THEN [dbFamily[k] EXCEPT
                            !.is_active = familyCalls[i].status,
                            !.updated_at = now]
                    ELSE dbFamily[k]]
  /\ familyToasts' =
       <<Plain(IF familyCalls[i].status = "1"
               THEN "Family member access enabled"
               ELSE "Family member access disabled")>>
  /\ loadFamilyMembers(RemoveAt(familyCalls, i), familyCalls[i].mount)
  /\ UNCHANGED <<nextFamilyId, familyOpen, familyMount, familyMembers,
                 familyDialogOpen, newMemberEmail>>
  /\ UNCHANGED <<debtVars, priorityVars, analyticsVars, settingsVars, txVars,
                 confirmsAccepted, dashboardVars>>

\* family_access.update rejected: the catch block
toggleMemberAccessRejected(i) ==
  /\ familyCalls[i].kind = "toggleMemberAccess"
  /\ familyToasts' = <<Destructive("Failed to update member access")>>
  /\ familyCalls' = RemoveAt(familyCalls, i)
  /\ UNCHANGED <<dbFamily, nextFamilyId, familyOpen, familyMount,
                 familyMembers, familyLoading, familyDialogOpen,
                 newMemberEmail>>
  /\ UNCHANGED <<debtVars, priorityVars, analyticsVars, settingsVars, txVars,
                 confirmsAccepted, dashboardVars>>

\* the remove button of a member's row: confirm(...), and when it was
\* accepted the handler up to the await of family_access.delete
removeFamilyMember(k, ok) ==
  /\ FamilyInteractive
  /\ k \in DOMAIN familyMembers
  /\ IF ~ok
     THEN UNCHANGED <<familyCalls, confirmsAccepted>>
     ELSE /\ confirmsAccepted < MaxConfirms
          /\ Len(familyCalls) < MaxFamilyInFlight
          /\ confirmsAccepted' = confirmsAccepted + 1
          /\ familyCalls' = Append(familyCalls,
               FamilyCall("removeFamilyMember", familyMount, <<>>,
                          familyMembers[k].id, ""))
  /\ familyToasts' = <<>>
  /\ UNCHANGED <<dbFamily, nextFamilyId, familyOpen, familyMount,
                 familyMembers, familyLoading, familyDialogOpen,
                 newMemberEmail>>
  /\ UNCHANGED <<debtVars, priorityVars, analyticsVars, settingsVars, txVars,
                 dashboardVars>>

\* family_access.delete resolved: toast, loadFamilyMembers()
removeFamilyMemberResolved(i) ==
  /\ familyCalls[i].kind = "removeFamilyMember"
  /\ FamilyStoreHas(familyCalls[i].id)
  /\ dbFamily' = SelectSeq(dbFamily, LAMBDA r : r.id # familyCalls[i].id)
  /\ familyToasts' = <<Plain("Family member removed successfully")>>
  /\ loadFamilyMembers(RemoveAt(familyCalls, i), familyCalls[i].mount)
  /\ UNCHANGED <<nextFamilyId, familyOpen, familyMount, familyMembers,
                 familyDialogOpen, newMemberEmail>>
  /\ UNCHANGED <<debtVars, priorityVars, analyticsVars, settingsVars, txVars,
                 confirmsAccepted, dashboardVars>>

\* family_access.delete rejected: the catch block
removeFamilyMemberRejected(i) ==
  /\ familyCalls[i].kind = "removeFamilyMember"
  /\ familyToasts' = <<Destructive("Failed to remove family member")>>
  /\ familyCalls' = RemoveAt(familyCalls, i)
  /\ UNCHANGED <<dbFamily, nextFamilyId, familyOpen, familyMount,
                 familyMembers, familyLoading, familyDialogOpen,
                 newMemberEmail>>
  /\ UNCHANGED <<debtVars, priorityVars, analyticsVars, settingsVars, txVars,
                 confirmsAccepted, dashboardVars>>

(* ------------------------------ Dashboard ----------------------------- *)
\* the list call's limit: the first n records
limit(list, n) == SubSeq(list, 1, IF Len(list) < n THEN Len(list) ELSE n)

\* the list call's orderBy: { due_date: 'asc' }, records without a due date
\* first and ties in the store's order
RECURSIVE orderByDueDateAsc(_)
orderByDueDateAsc(list) ==
  IF list = <<>> THEN <<>>
  ELSE LET sorted == orderByDueDateAsc(SubSeq(list, 1, Len(list) - 1))
           e      == list[Len(list)]
           at     == Cardinality({k \in DOMAIN sorted :
                                    ~TextLess(e.due_date, sorted[k].due_date)})
       IN  SubSeq(sorted, 1, at) \o <<e>> \o SubSeq(sorted, at + 1, Len(sorted))

\* blink.db.transactions.list({ orderBy: { date: 'desc' }, limit: 5 })
recentTransactions == limit(orderByDateDesc(dbTransactions), DashboardLimit)

\* blink.db.debts.list({ where: { is_paid: "0" }, orderBy: { due_date:
\* 'asc' }, limit: 5 })
activeDebtsListed(store) ==
  limit(orderByDueDateAsc(SelectSeq(store, LAMBDA d : d.is_paid = "0")),
        DashboardLimit)

\* .reduce((sum, d) => sum + d.remaining_amount_cad, 0)
RECURSIVE sumRemainingAmountCad(_)
sumRemainingAmountCad(list) ==
  IF list = <<>> THEN 0
  ELSE Head(list).remaining_amount_cad + sumRemainingAmountCad(Tail(list))

\* Dashboard: const totalOwed, const totalLent
totalOwed(list) ==
  sumRemainingAmountCad(
    SelectSeq(list, LAMBDA d : d.type = "owe" /\ d.is_paid = "0"))
totalLent(list) ==
  sumRemainingAmountCad(
    SelectSeq(list, LAMBDA d : d.type = "lent" /\ d.is_paid = "0"))

\* DebtManager: const debtsByType, over activeDebts
debtsByType(type) == SelectSeq(activeDebts, LAMBDA d : d.type = type)

DashboardCall(pc, transactionList) ==
  [pc |-> pc, recentTransactions |-> transactionList]

\* the Dashboard's effect calls loadDashboardData(): setLoading(true), up to
\* the await of transactions.list
loadDashboardData ==
  /\ dashboardCalls = <<>>
  /\ dashboardLoading' = TRUE
  /\ dashboardCalls' = <<DashboardCall("transactions", <<>>)>>
  /\ UNCHANGED <<dashboardTransactions, dashboardDebts, dashboardTotals,
                 quickStats>>
  /\ UNCHANGED <<debtVars, priorityVars, analyticsVars, settingsVars, txVars,
                 confirmsAccepted, familyVars>>

\* transactions.list resolved: debts.list is issued
loadDashboardDataTransactionsListed(i) ==
  /\ dashboardCalls[i].pc = "transactions"
  /\ dashboardCalls' = [dashboardCalls EXCEPT
       ![i] = DashboardCall("debts", recentTransactions)]
  /\ UNCHANGED <<dashboardTransactions, dashboardDebts, dashboardLoading,
                 dashboardTotals, quickStats>>
  /\ UNCHANGED <<debtVars, priorityVars, analyticsVars, settingsVars, txVars,
                 confirmsAccepted, familyVars>>

\* debts.list resolved: setTransactions, setDebts, finally setLoading(false)
loadDashboardDataResolved(i) ==
  /\ dashboardCalls[i].pc = "debts"
  /\ dashboardTransactions' = dashboardCalls[i].recentTransactions
  /\ dashboardDebts' = activeDebtsListed(dbDebts)
  /\ dashboardLoading' = FALSE
  /\ dashboardCalls' = RemoveAt(dashboardCalls, i)
  /\ UNCHANGED <<dashboardTotals, quickStats>>
  /\ UNCHANGED <<debtVars, priorityVars, analyticsVars, settingsVars, txVars,
                 confirmsAccepted, familyVars>>

\* either list rejected: the catch block (console.error), finally
\* setLoading(false)
loadDashboardDataRejected(i) ==
  /\ i \in DOMAIN dashboardCalls
  /\ dashboardLoading' = FALSE
  /\ dashboardCalls' = RemoveAt(dashboardCalls, i)
  /\ UNCHANGED <<dashboardTransactions, dashboardDebts, dashboardTotals,
                 quickStats>>
  /\ UNCHANGED <<debtVars, priorityVars, analyticsVars, settingsVars, txVars,
                 confirmsAccepted, familyVars>>

\* the Dashboard renders past its skeleton: the 'Money You Owe' and 'Money
\* Lent' cards show totalOwed and totalLent
renderDashboard ==
  /\ ~dashboardLoading
  /\ dashboardTotals' = <<[totalOwed |-> totalOwed(dashboardDebts),
                           totalLent |-> totalLent(dashboardDebts)]>>
  /\ UNCHANGED <<dashboardTransactions, dashboardDebts, dashboardLoading,
                 dashboardCalls, quickStats>>
  /\ UNCHANGED <<debtVars, priorityVars, analyticsVars, settingsVars, txVars,
                 confirmsAccepted, familyVars>>

\* the DebtManager renders past its skeleton: the Quick Stats cards 'Total I
\* Owe' and 'Total Lent Out'
renderQuickStats ==
  /\ ~loading
  /\ quickStats' = <<[owe  |-> sumRemainingAmountCad(debtsByType("owe")),
                      lent |-> sumRemainingAmountCad(debtsByType("lent"))]>>
  /\ UNCHANGED <<dashboardTransactions, dashboardDebts, dashboardLoading,
                 dashboardCalls, dashboardTotals>>
  /\ UNCHANGED <<debtVars, priorityVars, analyticsVars, settingsVars, txVars,
                 confirmsAccepted, familyVars>>

(* ------------------------- the debt lifecycle ------------------------- *)
DebtNext(D, P, B) ==
  \/ \E i \in DOMAIN calls : loadDebtsResolved(i)
  \/ \E i \in DOMAIN calls : loadDebtsRejected(i)
  \/ \E nd \in D : setNewDebt(nd)
  \/ \E b \in BOOLEAN : setAddDialogOpen(b)
  \/ handleAddDebt(B)
  \/ \E i \in DOMAIN calls : handleAddDebtCreated(i)
  \/ \E i \in DOMAIN calls : handleAddDebtRejected(i)
  \/ \E k \in DOMAIN debts : openPaymentDialog(k)
  \/ \E p \in P : setPayment(p)
  \/ cancelPayment
  \/ setPaymentDialogOpen
  \/ handlePayment(B)
  \/ \E i \in DOMAIN calls : handlePaymentCreated(i)
  \/ \E i \in DOMAIN calls : handlePaymentUpdated(i)
  \/ \E i \in DOMAIN calls : handlePaymentRejected(i)
  \/ \E k \in DOMAIN debts : deleteDebt(k, B)
  \/ \E i \in DOMAIN calls : deleteDebtResolved(i)
  \/ \E i \in DOMAIN calls : deleteDebtRejected(i)

Bounds(d, p, f) == [debts |-> d, payments |-> p, inflight |-> f]

\* the Analytics page before it is opened
AnalyticsPageInit ==
  /\ analyticsOpen = FALSE
  /\ analyticsMount = 0
  /\ analyticsLoading = TRUE
  /\ analyticsDebts = <<>>
  /\ timeRange = "6months"
  /\ analyticsCalls = <<>>

AnalyticsInit ==
  /\ AnalyticsPageInit
  /\ transactions = <<>>
  /\ monthlyData = <<>>
  /\ expenseCategories = <<>>
  /\ incomeCategories = <<>>

\* Analytics with a categorised list loaded and not yet rendered
CategoryInit ==
  /\ DebtInit
  /\ PriorityInit
  /\ SettingsInit
  /\ FamilyInit
  /\ DashboardInit
  /\ TxInit
  /\ AnalyticsPageInit
  /\ transactions \in CategoryLists
  /\ monthlyData = <<>>
  /\ expenseCategories = <<>>
  /\ incomeCategories = <<>>

\* Analytics with its list loaded and not yet rendered
MonthlyInit ==
  /\ DebtInit
  /\ PriorityInit
  /\ SettingsInit
  /\ FamilyInit
  /\ DashboardInit
  /\ TxInit
  /\ AnalyticsPageInit
  /\ transactions \in AnalyticsLists
  /\ monthlyData = <<>>
  /\ expenseCategories = <<>>
  /\ incomeCategories = <<>>

Init ==
  /\ DebtInit /\ PriorityInit /\ AnalyticsInit /\ SettingsInit /\ TxInit
  /\ FamilyInit /\ DashboardInit

\* overlapping invocations, valid payments
Next == DebtNext(Debt200Forms, ValidPaymentForms, Bounds(MaxDebts, MaxPayments, MaxInFlight))
Spec == Init /\ [][Next]_vars

\* the payment form in full, one invocation at a time
NextPay == DebtNext(Debt100Forms, AllPaymentForms, Bounds(PayDebts, PayPayments, 1))
SpecPay == Init /\ [][NextPay]_vars

\* the add-debt form in full, one invocation at a time
NextAdd == DebtNext(AllDebtForms, FewPaymentForms, Bounds(AddDebts, AddPayments, 1))
SpecAdd == Init /\ [][NextAdd]_vars

\* getMonthlyData over the lists loadData can leave
SpecMonthly == MonthlyInit /\ [][renderAnalytics]_vars

\* the Add Transaction page
AddTransactionNext ==
  \/ openAddTransaction
  \/ \E t \in {"income", "expense"} : setType(t)
  \/ \E a \in AddAmounts : setAmount(a)
  \/ \E c \in CategoryChoices : setCategory(c)
  \/ setDescription("lunch")
  \/ handleSubmit
  \/ \E i \in DOMAIN txCalls : handleSubmitCreated(i)
  \/ \E i \in DOMAIN txCalls : handleSubmitRejected(i)
  \/ closeTransactionPage
SpecAddTransaction == Init /\ [][AddTransactionNext]_vars

\* the store after a transaction was added
HistoryInit ==
  /\ DebtInit
  /\ PriorityInit
  /\ AnalyticsInit
  /\ SettingsInit
  /\ FamilyInit
  /\ DashboardInit
  /\ txPage = "none"
  /\ txMount = 0
  /\ dbTransactions =
       << NewTransaction(1, "expense", "Groceries", 1250, "lunch", ISODate(now)) >>
  /\ nextTransactionId = 2
  /\ addType = "expense"
  /\ addAmount = <<>>
  /\ addCategory = ""
  /\ addDescription = ""
  /\ addDate = ISODate(now)
  /\ addLoading = FALSE
  /\ txToasts = <<>>
  /\ txCalls = <<>>
  /\ historyTransactions = <<>>
  /\ historyLoading = TRUE
  /\ editingTransaction = <<>>
  /\ editDialogOpen = FALSE
  /\ editForm = EmptyEditForm
  /\ confirmsAccepted = 0

\* the Transaction History page
HistoryNext ==
  \/ openHistory
  \/ closeTransactionPage
  \/ \E i \in DOMAIN txCalls : loadTransactionsResolved(i)
  \/ \E i \in DOMAIN txCalls : loadTransactionsRejected(i)
  \/ \E k \in DOMAIN historyTransactions : handleEditTransaction(k)
  \/ \E a \in EditAmounts : setEditForm([editForm EXCEPT !.amount = a])
  \/ \E c \in CategoryChoices : setEditForm([editForm EXCEPT !.category = c])
  \/ setEditDialogOpen(FALSE)
  \/ handleUpdateTransaction
  \/ \E i \in DOMAIN txCalls : handleUpdateTransactionResolved(i)
  \/ \E i \in DOMAIN txCalls : handleUpdateTransactionRejected(i)
  \/ \E k \in DOMAIN historyTransactions, ok \in BOOLEAN :
       handleDeleteTransaction(k, ok)
  \/ \E i \in DOMAIN txCalls : handleDeleteTransactionResolved(i)
  \/ \E i \in DOMAIN txCalls : handleDeleteTransactionRejected(i)
SpecHistory == HistoryInit /\ [][HistoryNext]_vars

\* the Settings page
SettingsNext ==
  \/ openSettings
  \/ closeSettings
  \/ \E i \in DOMAIN settingsCalls, k \in DOMAIN dbPreferences :
       loadPreferencesFound(i, k)
  \/ \E i \in DOMAIN settingsCalls : loadPreferencesEmpty(i)
  \/ \E i \in DOMAIN settingsCalls : loadPreferencesCreated(i)
  \/ \E i \in DOMAIN settingsCalls : loadPreferencesRejected(i)
  \/ \E t \in RateTexts : setExchangeRate(t)
  \/ toggleTheme
  \/ updateExchangeRate
  \/ \E i \in DOMAIN settingsCalls : updatePreferencesResolved(i)
  \/ \E i \in DOMAIN settingsCalls : updatePreferencesRejected(i)
  \/ \E format \in {"csv", "json"} : exportData(format)
  \/ \E i \in DOMAIN settingsCalls : exportDataResolved(i)
  \/ \E i \in DOMAIN settingsCalls : exportDataRejected(i)
SpecSettings == Init /\ [][SettingsNext]_vars

\* the stores after a debt of 100.00 was added and paid 40.00 and 10.00, a
\* transaction was added and a family member was given access
ClearInit ==
  /\ dbDebts =
       << UpdatedDebt(UpdatedDebt(
            NewDebtRecord(NewDebtForm("owe", "Asha", Txt100, "rent", <<>>), 1),
            4000), 1000) >>
  /\ dbPayments =
       << PaymentRecord(
            NewDebtRecord(NewDebtForm("owe", "Asha", Txt100, "rent", <<>>), 1),
            4000, "cash", 1),
          PaymentRecord(
            NewDebtRecord(NewDebtForm("owe", "Asha", Txt100, "rent", <<>>), 1),
            1000, "cash", 2) >>
  /\ nextDebtId = 2
  /\ nextPaymentId = 3
  /\ debts = <<>>
  /\ loading = TRUE
  /\ addDialogOpen = FALSE
  /\ paymentDialogOpen = FALSE
  /\ selectedDebt = <<>>
  /\ newDebt = EmptyNewDebt
  /\ payment = EmptyPayment
  /\ toast = NoToast
  /\ calls = <<>>
  /\ PriorityInit
  /\ AnalyticsInit
  /\ SettingsInit
  /\ dbFamily = << NewFamilyMember(1, <<"a", "@", "x">>, now) >>
  /\ nextFamilyId = 2
  /\ familyOpen = FALSE
  /\ familyMount = 0
  /\ familyMembers = <<>>
  /\ familyLoading = TRUE
  /\ familyDialogOpen = FALSE
  /\ newMemberEmail = <<>>
  /\ familyToasts = <<>>
  /\ familyCalls = <<>>
  /\ DashboardInit
  /\ dbTransactions =
       << NewTransaction(1, "expense", "Groceries", 1250, "lunch", ISODate(now)) >>
  /\ nextTransactionId = 2
  /\ txPage = "none"
  /\ txMount = 0
  /\ addType = "expense"
  /\ addAmount = <<>>
  /\ addCategory = ""
  /\ addDescription = ""
  /\ addDate = ISODate(now)
  /\ addLoading = FALSE
  /\ txToasts = <<>>
  /\ txCalls = <<>>
  /\ historyTransactions = <<>>
  /\ historyLoading = TRUE
  /\ editingTransaction = <<>>
  /\ editDialogOpen = FALSE
  /\ editForm = EmptyEditForm
  /\ confirmsAccepted = 0

\* the Settings page's Clear All Data
ClearNext ==
  \/ openSettings
  \/ closeSettings
  \/ \E i \in DOMAIN settingsCalls, k \in DOMAIN dbPreferences :
       loadPreferencesFound(i, k)
  \/ \E i \in DOMAIN settingsCalls : loadPreferencesEmpty(i)
  \/ \E i \in DOMAIN settingsCalls : loadPreferencesCreated(i)
  \/ \E i \in DOMAIN settingsCalls : loadPreferencesRejected(i)
  \/ \E ok \in BOOLEAN : clearAllData(ok)
  \/ \E i \in DOMAIN settingsCalls, c \in {"transactions", "debts", "debt_payments"} :
       clearAllDataListed(i, c)
  \/ \E i \in DOMAIN settingsCalls : \E d \in settingsCalls[i].deletes :
       clearAllDataDeleted(i, d)
  \/ \E i \in DOMAIN settingsCalls, c \in {"transactions", "debts", "debt_payments"} :
       clearAllDataListRejected(i, c)
  \/ \E i \in DOMAIN settingsCalls : \E d \in settingsCalls[i].deletes :
       clearAllDataDeleteRejected(i, d)
SpecClear == ClearInit /\ [][ClearNext]_vars

\* the stores Analytics reads: a debt of 100.00 and three transactions, one
\* a month, one three months and a day, one a year and a day before the clock
AnalyticsLoadInit ==
  /\ dbDebts =
       << NewDebtRecord(NewDebtForm("owe", "Asha", Txt100, "rent", <<>>), 1) >>
  /\ dbPayments = <<>>
  /\ nextDebtId = 2
  /\ nextPaymentId = 1
  /\ debts = <<>>
  /\ loading = TRUE
  /\ addDialogOpen = FALSE
  /\ paymentDialogOpen = FALSE
  /\ selectedDebt = <<>>
  /\ newDebt = EmptyNewDebt
  /\ payment = EmptyPayment
  /\ toast = NoToast
  /\ calls = <<>>
  /\ PriorityInit
  /\ AnalyticsInit
  /\ SettingsInit
  /\ FamilyInit
  /\ DashboardInit
  /\ dbTransactions =
       << NewTransaction(1, "expense", "Groceries", 1250, "lunch",
                         <<"2","0","2","4","-","0","1","-","2","5">>),
          NewTransaction(2, "income", "Salary", 300000, "pay",
                         <<"2","0","2","3","-","1","1","-","2","4">>),
          NewTransaction(3, "expense", "Travel", 40000, "trip",
                         <<"2","0","2","3","-","0","2","-","2","4">>) >>
  /\ nextTransactionId = 4
  /\ txPage = "none"
  /\ txMount = 0
  /\ addType = "expense"
  /\ addAmount = <<>>
  /\ addCategory = ""
  /\ addDescription = ""
  /\ addDate = ISODate(now)
  /\ addLoading = FALSE
  /\ txToasts = <<>>
  /\ txCalls = <<>>
  /\ historyTransactions = <<>>
  /\ historyLoading = TRUE
  /\ editingTransaction = <<>>
  /\ editDialogOpen = FALSE
  /\ editForm = EmptyEditForm
  /\ confirmsAccepted = 0

\* the Analytics page loading its data
AnalyticsNext ==
  \/ openAnalytics
  \/ closeAnalytics
  \/ \E r \in TimeRanges : setTimeRange(r)
  \/ onAuthStateChanged
  \/ \E i \in DOMAIN analyticsCalls : loadDataTransactionsListed(i)
  \/ \E i \in DOMAIN analyticsCalls : loadDataDebtsListed(i)
  \/ \E i \in DOMAIN analyticsCalls : loadDataResolved(i)
  \/ \E i \in DOMAIN analyticsCalls : loadDataRejected(i)
SpecAnalytics == AnalyticsLoadInit /\ [][AnalyticsNext]_vars

\* the Family Access page
FamilyNext ==
  \/ openFamily
  \/ closeFamily
  \/ \E i \in DOMAIN familyCalls : loadFamilyMembersResolved(i)
  \/ \E i \in DOMAIN familyCalls : loadFamilyMembersRejected(i)
  \/ \E b \in BOOLEAN : setFamilyDialogOpen(b)
  \/ \E e \in FamilyEmails : setNewMemberEmail(e)
  \/ addFamilyMember
  \/ \E i \in DOMAIN familyCalls : addFamilyMemberCreated(i)
  \/ \E i \in DOMAIN familyCalls : addFamilyMemberRejected(i)
  \/ \E k \in DOMAIN familyMembers : toggleMemberAccess(k)
  \/ \E i \in DOMAIN familyCalls : toggleMemberAccessUpdated(i)
  \/ \E i \in DOMAIN familyCalls : toggleMemberAccessRejected(i)
  \/ \E k \in DOMAIN familyMembers, ok \in BOOLEAN : removeFamilyMember(k, ok)
  \/ \E i \in DOMAIN familyCalls : removeFamilyMemberResolved(i)
  \/ \E i \in DOMAIN familyCalls : removeFamilyMemberRejected(i)
SpecFamily == Init /\ [][FamilyNext]_vars

\* The debts a store can hold for the totals: a debt of 100.00 the user owes,
\* without due date; 100.00 lent, due 2024-03-03, of which 40.00 came back;
\* and a debt of 100.00 the user owed and has paid.
TotalsDebt(kind, id) ==
  CASE kind = "owe"  ->
         NewDebtRecord(NewDebtForm("owe", "Asha", Txt100, "rent", <<>>), id)
    [] kind = "lent" ->
         UpdatedDebt(
           NewDebtRecord(NewDebtForm("lent", "Asha", Txt100, "rent", TxtDue), id),
           4000)
    [] kind = "paid" ->
         UpdatedDebt(
           NewDebtRecord(NewDebtForm("owe", "Asha", Txt100, "rent", <<>>), id),
           10000)

TotalsStores ==
  UNION { { [k \in 1..n |-> TotalsDebt(f[k], k)] :
              f \in [1..n -> {"owe", "lent", "paid"}] } :
          n \in 0..MaxStoredDebts }

\* the Dashboard and the DebtManager over a store of debts
TotalsInit ==
  /\ dbDebts \in TotalsStores
  /\ dbPayments = <<>>
  /\ nextDebtId = Len(dbDebts) + 1
  /\ nextPaymentId = 1
  /\ debts = <<>>
  /\ loading = TRUE
  /\ addDialogOpen = FALSE
  /\ paymentDialogOpen = FALSE
  /\ selectedDebt = <<>>
  /\ newDebt = EmptyNewDebt
  /\ payment = EmptyPayment
  /\ toast = NoToast
  /\ calls = <<loadDebtsCall>>
  /\ PriorityInit /\ AnalyticsInit /\ SettingsInit /\ TxInit
  /\ FamilyInit /\ DashboardInit

TotalsNext ==
  \/ loadDashboardData
  \/ \E i \in DOMAIN dashboardCalls : loadDashboardDataTransactionsListed(i)
  \/ \E i \in DOMAIN dashboardCalls : loadDashboardDataResolved(i)
  \/ \E i \in DOMAIN dashboardCalls : loadDashboardDataRejected(i)
  \/ renderDashboard
  \/ \E i \in DOMAIN calls : loadDebtsResolved(i)
  \/ \E i \in DOMAIN calls : loadDebtsRejected(i)
  \/ renderQuickStats
SpecTotals == TotalsInit /\ [][TotalsNext]_vars

\* getCategoryData over the lists loadData can leave
SpecCategory == CategoryInit /\ [][renderAnalytics]_vars

\* the due-date bands against the clock
SpecPriority == Init /\ [][PriorityNext]_vars

(* ======================= the debt lifecycle: claims =================== *)
\* What each amount text of the forms means, in cents; <<>> when the text is
\* missing or is no number.
AmountMeaning(text) ==
  CASE text = Txt100 -> <<10000>>
    [] text = Txt200 -> <<20000>>
    [] text = <<"1", "5", "0">> -> <<15000>>
    [] text = <<"4", "0">> -> <<4000>>
    [] text = <<"1">> -> <<100>>
    [] text = <<"0", ".", "5">> -> <<50>>
    [] text = <<"0">> -> <<0>>
    [] text = <<"-", "5">> -> <<0 - 500>>
    [] OTHER -> <<>>

PayBounds == Bounds(PayDebts, PayPayments, 1)
AddBounds == Bounds(AddDebts, AddPayments, 1)

\* C1: in every reachable state of the store, whatever the interleaving of
\* handleAddDebt and handlePayment invocations, every debt satisfies
\* 0 <= remaining_amount_cad <= total_amount_cad.
C1_RemainingWithinTotal ==
  \A k \in DOMAIN dbDebts :
    /\ 0 <= dbDebts[k].remaining_amount_cad
    /\ dbDebts[k].remaining_amount_cad <= dbDebts[k].total_amount_cad

\* C1 witness: two handlePayment invocations overlapped: one has reduced the
\* stored debt while the other, holding the older snapshot, awaits its update.
C1_OverlappingPayments ==
  \E k \in DOMAIN dbDebts, i \in DOMAIN calls :
    /\ calls[i].kind = "handlePayment"
    /\ calls[i].pc = "update"
    /\ calls[i].debt[1].id = dbDebts[k].id
    /\ 0 < dbDebts[k].remaining_amount_cad
    /\ dbDebts[k].remaining_amount_cad < calls[i].debt[1].remaining_amount_cad

\* C2: in every reachable state of the store a debt has is_paid = "1" exactly
\* when its remaining_amount_cad <= 0, and is_paid = "0" otherwise.
C2_PaidIffSettled ==
  \A k \in DOMAIN dbDebts :
    /\ dbDebts[k].is_paid \in {"0", "1"}
    /\ dbDebts[k].is_paid = "1" <=> dbDebts[k].remaining_amount_cad <= 0

\* C2 witness: a debt paid off by two payments
C2_DebtPaidOff ==
  \E k \in DOMAIN dbDebts :
    /\ dbDebts[k].is_paid = "1"
    /\ dbDebts[k].remaining_amount_cad = 0
    /\ Len(dbPayments) = 2

\* C3: a payment whose amount is missing, not a number, <= 0 or greater than
\* the selected debt's remaining_amount_cad is rejected with a validation
\* error; the rejection issues no remote call, creates no DebtPayment and
\* leaves the stored debts, the selected debt and the payment form as they
\* were.
PaymentValidationErrors ==
  { "Please enter payment amount", "Please enter a valid payment amount",
    "Payment amount cannot exceed remaining debt" }

PaymentAmountInvalid ==
  \/ AmountMeaning(payment.amount) = <<>>
  \/ AmountMeaning(payment.amount)[1] <= 0
  \/ AmountMeaning(payment.amount)[1] > selectedDebt[1].remaining_amount_cad

C3_InvalidPaymentRejected ==
  [][ (handlePayment(PayBounds) /\ selectedDebt # <<>> /\ PaymentAmountInvalid)
      => /\ toast'.variant = "destructive"
         /\ toast'.description \in PaymentValidationErrors
         /\ UNCHANGED <<calls, nextPaymentId, dbPayments, dbDebts, debts,
                        selectedDebt, payment>> ]_vars

\* C3 witness: 150 has just been refused against a remaining amount of 100
C3_ExcessPaymentRefused ==
  /\ toast = Destructive("Payment amount cannot exceed remaining debt")
  /\ payment.amount = <<"1", "5", "0">>
  /\ selectedDebt # <<>>
  /\ selectedDebt[1].remaining_amount_cad = 10000
  /\ dbPayments = <<>>

\* C4: when handlePayment accepts a payment p against a debt d and both remote
\* writes succeed, the stored debt has remaining_amount_cad = d's remaining - p,
\* remaining_amount_inr = that times the rate, is_paid = "1" iff that is <= 0
\* (100 less 100 is 0 and paid, 100 less 40 is 60 and unpaid), and exactly one
\* DebtPayment with amount_cad = p and debt_id = d.id has been created.
PaymentsOf(list, id) == {k \in DOMAIN list : list[k].id = id}
DebtIn(list, id) == list[CHOOSE k \in DOMAIN list : list[k].id = id]

C4_PaymentApplied ==
  [][ \A i \in DOMAIN calls :
        handlePaymentUpdated(i) =>
          LET d      == calls[i].debt[1]
              p      == calls[i].amount
              stored == DebtIn(dbDebts', d.id)
              made   == PaymentsOf(dbPayments', calls[i].id)
          IN  /\ stored.remaining_amount_cad = d.remaining_amount_cad - p
              /\ stored.remaining_amount_inr
                   = (d.remaining_amount_cad - p) * exchangeRate
              /\ stored.is_paid = "1" <=> d.remaining_amount_cad - p <= 0
              /\ stored.is_paid \in {"0", "1"}
              /\ (d.remaining_amount_cad = 10000 /\ p = 10000)
                   => (stored.remaining_amount_cad = 0 /\ stored.is_paid = "1")
              /\ (d.remaining_amount_cad = 10000 /\ p = 4000)
                   => (stored.remaining_amount_cad = 6000 /\ stored.is_paid = "0")
              /\ Cardinality(made) = 1
              /\ \A k \in made : /\ dbPayments'[k].amount_cad = p
                                 /\ dbPayments'[k].debt_id = d.id ]_vars

\* C4 witness: 40 has just been paid off a debt of 100
C4_FortyPaidOffHundred ==
  /\ toast = Plain("Payment recorded successfully!")
  /\ \E k \in DOMAIN dbDebts :
       /\ dbDebts[k].total_amount_cad = 10000
       /\ dbDebts[k].remaining_amount_cad = 6000
       /\ dbDebts[k].is_paid = "0"
  /\ Len(dbPayments) = 1
  /\ dbPayments[1].amount_cad = 4000

\* C5: a debt added with amount 200 (owe, no due date) is classified low; once
\* a payment of 200 is recorded the debt is paid; and once a debt is stored
\* with remaining 0, no later payment against it is accepted or creates a
\* DebtPayment.
AcceptsPaymentFor(id) ==
  /\ Len(calls') = Len(calls) + 1
  /\ calls'[Len(calls')].kind = "handlePayment"
  /\ calls'[Len(calls')].pc = "create"
  /\ calls'[Len(calls')].debt[1].id = id

CreatesPaymentFor(id) ==
  /\ Len(dbPayments') = Len(dbPayments) + 1
  /\ dbPayments'[Len(dbPayments')].debt_id = id

C5_EndToEnd ==
  [][ /\ \A i \in DOMAIN calls :
           (handleAddDebtCreated(i) /\ calls[i].debt[1].type = "owe"
              /\ calls[i].debt[1].due_date = <<>>)
           => /\ dbDebts'[Len(dbDebts')].total_amount_cad = 20000
              /\ \A t \in ClockReadings :
                   getPriorityLevel(dbDebts'[Len(dbDebts')], t) = "low"
      /\ \A i \in DOMAIN calls :
           (handlePaymentUpdated(i) /\ calls[i].amount = 20000)
           => DebtIn(dbDebts', calls[i].debt[1].id).is_paid = "1"
      /\ \A k \in DOMAIN dbDebts :
           dbDebts[k].remaining_amount_cad = 0
           => /\ ~AcceptsPaymentFor(dbDebts[k].id)
              /\ ~CreatesPaymentFor(dbDebts[k].id) ]_vars

(* ===================== priority by due date: claims =================== *)
\* The calendar day, counted from the epoch, a due date's text names: read
\* off the table of due dates, not parsed.
DueDay(text) == BaseDay + (CHOOSE c \in DueDates : c.text = text).offset

\* ceil((dueInstant - instant) / 1 day): the whole number n of days with
\* n - 1 < (dueInstant - instant) / 1 day <= n
WholeDaysUntil(dueInstant, instant) ==
  CHOOSE n \in (0 - 800)..800 :
    /\ (n - 1) * DayLength < dueInstant - instant
    /\ dueInstant - instant <= n * DayLength

ReferencePriority(debt, instant) ==
  IF debt.due_date = <<>> THEN "low"
  ELSE LET daysUntilDue ==
             WholeDaysUntil(DueDay(debt.due_date) * DayLength, instant)
       IN  CASE daysUntilDue < 0 -> "overdue"
             [] 0 <= daysUntilDue /\ daysUntilDue <= 7 -> "urgent"
             [] 8 <= daysUntilDue /\ daysUntilDue <= 30 -> "medium"
             [] OTHER -> "low"

\* C6: for every debt and current instant getPriorityLevel gives the reference
\* classification: low without a due date; otherwise, with daysUntilDue =
\* ceil((dueDate - now) / 1 day), overdue below 0, urgent from 0 to 7, medium
\* from 8 to 30, low above.
C6_PriorityMatchesReference ==
  renderedDebt # <<>>
    => priority = ReferencePriority(renderedDebt[1], renderedAt)

\* C6 witness: at noon a debt due at the midnight 7.5 days ahead is medium
C6_SevenAndAHalfDaysIsMedium ==
  /\ renderedDebt # <<>>
  /\ renderedDebt[1].due_date # <<>>
  /\ DueDay(renderedDebt[1].due_date) * DayLength - renderedAt
       = 7 * DayLength + 43200
  /\ priority = "medium"

\* Where the browser runs: the local time's distance east of UTC, in seconds
\* (UTC, Toronto in winter, India).
TimezoneOffsets == {0, 0 - 18000, 19800}

\* C7: at every time of day of the current calendar date today, a debt due
\* today+7 is urgent, today+8 medium, today+30 medium, today+31 low and
\* today-1 overdue; a debt with no due date is low.
C7_BandsAtBoundaries ==
  renderedDebt # <<>> =>
    IF renderedDebt[1].due_date = <<>> THEN priority = "low"
    ELSE \A z \in TimezoneOffsets :
           LET today == (renderedAt + z) \div DayLength
               due   == DueDay(renderedDebt[1].due_date)
           IN  /\ due = today + 7 => priority = "urgent"
               /\ due = today + 8 => priority = "medium"
               /\ due = today + 30 => priority = "medium"
               /\ due = today + 31 => priority = "low"
               /\ due = today - 1 => priority = "overdue"

(* ========================= handleAddDebt: claims ===================== *)
\* The fields of the add-debt form that are missing or invalid.
InvalidFields(nd) ==
  (IF nd.person_name = "" THEN {"person_name"} ELSE {})
    \cup (IF nd.purpose = "" THEN {"purpose"} ELSE {})
    \cup (IF AmountMeaning(nd.amount) = <<>> \/ AmountMeaning(nd.amount)[1] <= 0
          THEN {"amount"} ELSE {})

\* The fields a validation message names.
FieldsNamed(msg) ==
  CASE msg = "Please enter a valid amount" -> {"amount"}
    [] msg = "Please fill in all required fields" -> {}
    [] OTHER -> {}

\* C8 as stated: with the name or the purpose missing, or the amount missing,
\* not a number or not positive, handleAddDebt creates no debt and fails with
\* a validation error that names a missing or invalid field.
C8_ErrorNamesField ==
  [][ (handleAddDebt(AddBounds) /\ InvalidFields(newDebt) # {})
      => /\ toast'.variant = "destructive"
         /\ UNCHANGED <<calls, nextDebtId, dbDebts>>
         /\ InvalidFields(newDebt) \cap FieldsNamed(toast'.description) # {} ]_vars

\* C8 amended: in those cases handleAddDebt creates no debt and fails with
\* "Please fill in all required fields" when the name, the purpose or the
\* amount is missing, and with "Please enter a valid amount" otherwise.
C8_ErrorOnInvalidForm ==
  [][ (handleAddDebt(AddBounds) /\ InvalidFields(newDebt) # {})
      => /\ toast'.variant = "destructive"
         /\ UNCHANGED <<calls, nextDebtId, dbDebts, debts, newDebt>>
         /\ toast'.description =
              IF newDebt.person_name = "" \/ newDebt.purpose = ""
                   \/ newDebt.amount = <<>>
              THEN "Please fill in all required fields"
              ELSE "Please enter a valid amount" ]_vars

\* C8 witness: a form without a purpose has just been refused
C8_MissingPurposeRefused ==
  /\ toast = Destructive("Please fill in all required fields")
  /\ newDebt.purpose = ""
  /\ newDebt.person_name # ""
  /\ newDebt.amount = Txt200
  /\ dbDebts = <<>>
  /\ calls = <<>>

\* C9: every debt handleAddDebt creates is stored with remaining_amount_cad =
\* total_amount_cad = the entered amount, is_paid = "0" and priority_score = 0
\* (the record is built from the form at submission and stored as built), and
\* priority_score is 0 for every stored debt after every step.
C9_CreatedDebtInitialised ==
  [][ /\ (handleAddDebt(AddBounds) /\ Len(calls') = Len(calls) + 1)
         => LET debt == calls'[Len(calls')].debt[1]
            IN  /\ debt.total_amount_cad = AmountMeaning(newDebt.amount)[1]
                /\ debt.remaining_amount_cad = AmountMeaning(newDebt.amount)[1]
                /\ debt.is_paid = "0"
                /\ debt.priority_score = 0
      /\ \A i \in DOMAIN calls :
           handleAddDebtCreated(i)
           => LET stored == dbDebts'[Len(dbDebts')]
              IN  /\ Len(dbDebts') = Len(dbDebts) + 1
                  /\ stored = calls[i].debt[1]
                  /\ stored.remaining_amount_cad = stored.total_amount_cad
                  /\ stored.is_paid = "0"
                  /\ stored.priority_score = 0
      /\ \A k \in DOMAIN dbDebts' : dbDebts'[k].priority_score = 0 ]_vars

\* C9 witness: a debt entered as 0.5 has just been stored
C9_HalfDollarStored ==
  /\ toast = Plain("Debt added successfully!")
  /\ Len(dbDebts) = 1
  /\ dbDebts[1].total_amount_cad = 50
  /\ dbDebts[1].remaining_amount_cad = 50
  /\ dbDebts[1].is_paid = "0"
  /\ dbDebts[1].priority_score = 0

(* ========================= getMonthlyData: claims ===================== *)
MonthKeys(list) == { SubSeq(list[i].date, 1, 7) : i \in DOMAIN list }

RECURSIVE SumAmounts(_, _)
SumAmounts(list, indices) ==
  IF indices = {} THEN 0
  ELSE LET i == CHOOSE j \in indices : TRUE
       IN  list[i].amount_cad + SumAmounts(list, indices \ {i})

MonthSum(list, key, type) ==
  SumAmounts(list, { i \in DOMAIN list :
                       SubSeq(list[i].date, 1, 7) = key /\ list[i].type = type })

\* the months since year 0 a key "YYYY-MM" names
MonthIndex(key) ==
  12 * DigitsVal(SubSeq(key, 1, 4)) + DigitsVal(SubSeq(key, 6, 7))

\* C10: getMonthlyData returns exactly one entry per year-month key (the
\* first 7 characters of the date) occurring in the list and none for any
\* other month, with income and expenses the sums of that key's income and
\* expense amounts, net = income - expenses, in ascending order of key.
C10_MonthlyData ==
  monthlyData # <<>> =>
    LET out == monthlyData[1]
    IN  /\ { out[k].month : k \in DOMAIN out } = MonthKeys(transactions)
        /\ Len(out) = Cardinality(MonthKeys(transactions))
        /\ \A k \in DOMAIN out :
             /\ out[k].income = MonthSum(transactions, out[k].month, "income")
             /\ out[k].expenses = MonthSum(transactions, out[k].month, "expense")
             /\ out[k].net = out[k].income - out[k].expenses
        /\ \A k \in 1..(Len(out) - 1) :
             MonthIndex(out[k].month) < MonthIndex(out[k + 1].month)

\* C10 witness: January's income and expense and February's income rendered
C10_JanuaryThenFebruary ==
  /\ Len(transactions) = 3
  /\ monthlyData =
       << << [month |-> <<"2","0","2","4","-","0","1">>, income |-> 10000,
              expenses |-> 3000, net |-> 7000],
             [month |-> <<"2","0","2","4","-","0","2">>, income |-> 5000,
              expenses |-> 0, net |-> 5000] >> >>

(* ======================== getCategoryData: claims ==================== *)
\* the positions of the list's transactions of a type, and of a category
OfType(list, type) == { i \in DOMAIN list : list[i].type = type }
OfCategory(list, type, category) ==
  { i \in OfType(list, type) : list[i].category = category }

\* what getCategoryData(type) is to return for a list
CategoryDataCorrect(out, list, type) ==
  LET total == SumAmounts(list, OfType(list, type))
  IN  /\ { out[k].category : k \in DOMAIN out }
           = { list[i].category : i \in OfType(list, type) }
      /\ Len(out) = Cardinality({ list[i].category : i \in OfType(list, type) })
      /\ \A k \in DOMAIN out :
           LET members == OfCategory(list, type, out[k].category)
           IN  /\ out[k].amount = SumAmounts(list, members)
               /\ out[k].transactions = Cardinality(members)
               /\ IF total = 0 THEN out[k].percentage = 0
                  ELSE /\ out[k].percentage * total <= out[k].amount * PercentScale
                       /\ out[k].amount * PercentScale < (out[k].percentage + 1) * total
      /\ \A k \in 1..(Len(out) - 1) : out[k].amount >= out[k + 1].amount
      /\ SumAmounts([k \in DOMAIN out |-> [amount_cad |-> out[k].amount]],
                    DOMAIN out) = total
      /\ SumAmounts([k \in DOMAIN out |-> [amount_cad |-> out[k].transactions]],
                    DOMAIN out) = Cardinality(OfType(list, type))
      /\ list = <<>> => out = <<>>

\* C11: getCategoryData(type) returns one entry per distinct category among
\* the transactions of the type, with amount their sum, transactions their
\* count and percentage = amount / total of the type * 100 (0 when the total
\* is 0), in descending order of amount; the amounts add up to the total of
\* the type, the counts to its number of transactions, and an empty list
\* gives an empty result.
C11_CategoryData ==
  (expenseCategories # <<>> /\ incomeCategories # <<>>) =>
    /\ CategoryDataCorrect(expenseCategories[1], transactions, "expense")
    /\ CategoryDataCorrect(incomeCategories[1], transactions, "income")

\* C11 witness: Travel 10000 and two Groceries entries of 5000 and 3000
\* rendered as Travel (55.55%) before Groceries (44.44%), no income
C11_TravelBeforeGroceries ==
  /\ Len(transactions) = 3
  /\ expenseCategories =
       << << [category |-> "Travel", amount |-> 10000, percentage |-> 5555,
              transactions |-> 1],
             [category |-> "Groceries", amount |-> 8000, percentage |-> 4444,
              transactions |-> 2] >> >>
  /\ incomeCategories = << <<>> >>

(* ============================ Settings: claims ======================= *)
\* C12: after any sequence of loadPreferences invocations, overlapping ones
\* included, the store holds exactly one UserPreferences record for the user
\* (never more than one, and one once an invocation has completed), and a
\* record created lazily has default_currency CAD, theme light and rate 61.5.
C12_OnePreferencesRecord ==
  [][ /\ Len(dbPreferences') <= 1
      /\ \A i \in DOMAIN settingsCalls :
           /\ (\E k \in DOMAIN dbPreferences : loadPreferencesFound(i, k))
                => Len(dbPreferences') = 1
           /\ loadPreferencesCreated(i)
                => /\ Len(dbPreferences') = 1
                   /\ dbPreferences'[1].default_currency = "CAD"
                   /\ dbPreferences'[1].theme = "light"
                   /\ dbPreferences'[1].exchange_rate_cad_to_inr = 6150 ]_vars

(* ========================= transactions: claims ====================== *)
\* the transaction records written so far: those in the store and those of
\* the create and update calls awaiting their answer
WrittenTransactions ==
  Range(dbTransactions) \cup
    {txCalls[i].record[1] : i \in {j \in DOMAIN txCalls : txCalls[j].record # <<>>}}

\* C13: every transaction record the application writes, on creation
\* (handleSubmit) and on edit (handleUpdateTransaction), has
\* amount_inr = amount_cad * exchange_rate for the exchange_rate stored in
\* that same record.
C13_AmountInrOfStoredRate ==
  \A t \in WrittenTransactions : t.amount_inr = t.amount_cad * t.exchange_rate

\* C13 witness: the 12.50 transaction edited to 20.00 is in the store with
\* the secondary amount of 20.00
C13_EditedAmountStored ==
  \E k \in DOMAIN dbTransactions :
    /\ dbTransactions[k].id = 1
    /\ dbTransactions[k].amount_cad = 2000
    /\ dbTransactions[k].amount_inr = 2000 * 615
    /\ dbTransactions[k].exchange_rate = 615

\* C14: every transaction created through AddTransaction, after any sequence
\* of setType, setCategory and submit actions, has a category of the
\* enumerated set of its own type: no income transaction is stored with an
\* expense category, and no expense transaction with an income category.
C14_CategoryOfOwnType ==
  \A t \in WrittenTransactions : t.category \in TRANSACTION_CATEGORIES[t.type]

(* ========================== payments: claims ========================= *)
\* C15: DebtPayment records are immutable and append-only: a payment record
\* once created is never modified and never removed, so every step keeps
\* each record of the collection as it is.
C15_PaymentsOnlyGrow ==
  [][\A k \in DOMAIN dbPayments : dbPayments[k] \in Range(dbPayments')]_vars

\* C15 as amended: a payment record is never modified, and it is removed
\* only by the delete that Clear All Data addressed to it after the user
\* accepted the confirmation prompt; every other step keeps it as it is.
C15_PaymentsKeptUntilCleared ==
  [][\A k \in DOMAIN dbPayments :
       \/ dbPayments[k] \in Range(dbPayments')
       \/ /\ confirmsAccepted > 0
          /\ \A r \in Range(dbPayments') : r.id # dbPayments[k].id
          /\ \E i \in DOMAIN settingsCalls :
               clearAllDataDeleted(i, [collection |-> "debt_payments",
                                       id |-> dbPayments[k].id])]_vars

\* C15 witness: Clear All Data has removed the payment of 40.00 and the
\* payment of 10.00 is still stored as it was recorded
C15_OnePaymentCleared ==
  /\ confirmsAccepted = 1
  /\ Len(dbPayments) = 1
  /\ dbPayments[1].id = 2
  /\ dbPayments[1].amount_cad = 1000
  /\ dbPayments[1].amount_inr = 1000 * 615

(* =========================== deletes: claims ========================= *)
\* the invocations of a deleting handler that have got as far as their
\* remote calls: deleteDebt, handleDeleteTransaction, clearAllData
DeleteInvocations(debtCalls, transactionCalls, settingCalls) ==
  Len(SelectSeq(debtCalls, LAMBDA c : c.kind = "deleteDebt"))
    + Len(SelectSeq(transactionCalls,
                    LAMBDA c : c.kind = "handleDeleteTransaction"))
    + Len(SelectSeq(settingCalls, LAMBDA c : c.kind = "clearAllData"))

\* C16: a remote delete (of a transaction, of a debt, of all data) is issued
\* only once the user has accepted a confirmation prompt: the step that takes
\* a deleting handler to its remote calls is a step in which a prompt was
\* accepted, and a step in which the prompt was declined issues no delete
\* and leaves the stores unchanged.
C16_DeleteOnlyAfterConfirm ==
  [][ /\ DeleteInvocations(calls', txCalls', settingsCalls')
           > DeleteInvocations(calls, txCalls, settingsCalls)
         => confirmsAccepted' = confirmsAccepted + 1
      /\ ( \/ \E k \in DOMAIN historyTransactions :
                handleDeleteTransaction(k, FALSE)
           \/ clearAllData(FALSE) )
         => /\ UNCHANGED <<dbTransactions, dbDebts, dbPayments>>
            /\ UNCHANGED <<calls, txCalls, settingsCalls>> ]_vars

(* ====================== rate and failures: claims ==================== *)
\* the rate, in hundredths, with which the pages format amounts and build the
\* records they write: the exchangeRate state of each component
RateInUse == exchangeRate * 10

\* C17: once updateExchangeRate(r) has succeeded (its user_preferences.update
\* resolved), the rate with which amounts are formatted and new debts,
\* payments and transactions are written equals r.
C17_SavedRateInUse ==
  [][\A i \in DOMAIN settingsCalls :
       (settingsCalls[i].outer /\ updatePreferencesResolved(i))
         => RateInUse = settingsCalls[i].prefs[1].exchange_rate_cad_to_inr]_vars

\* the failure and the success messages among the toasts of a step
Failures(toasts) == {k \in DOMAIN toasts : toasts[k].variant = "destructive"}
Successes(toasts) == {k \in DOMAIN toasts : toasts[k].variant = "default"}

\* C18: a rejection of a gateway call is caught where it was awaited and
\* surfaced to the user: the step that handles it raises a failure message.
C18_FailureSurfaced ==
  [][\A i \in DOMAIN settingsCalls :
       (loadPreferencesRejected(i) \/ updatePreferencesRejected(i)
          \/ exportDataRejected(i))
         => Failures(settingsToasts') # {}]_vars

\* C19: when the remote call of a mutation handler fails, the handler does
\* not issue it again and reports the failure exactly once: one failure
\* message and no success message.
C19_FailureReportedOnce ==
  [][ /\ \A i \in DOMAIN settingsCalls :
           updatePreferencesRejected(i)
             => /\ Len(settingsCalls') = Len(settingsCalls) - 1
                /\ Cardinality(Failures(settingsToasts')) = 1
                /\ Successes(settingsToasts') = {}
      /\ \A i \in DOMAIN calls :
           handlePaymentRejected(i)
             => /\ Len(calls') = Len(calls) - 1
                /\ toast' = Destructive("Failed to record payment") ]_vars

\* C20: at most one mutation is in flight per user action: while an
\* invocation of handlePayment or of handleAddDebt awaits its remote calls
\* no second one of the same handler is started.
C20_OneMutationInFlight ==
  \A kind \in {"handlePayment", "handleAddDebt"} :
    Cardinality({i \in DOMAIN calls : calls[i].kind = kind}) <= 1

(* ===================== payments and debts: claims ==================== *)
\* the payment records of a debt, and what they add up to
PaymentsForDebt(list, id) == {k \in DOMAIN list : list[k].debt_id = id}
PaidInto(id) == SumAmounts(dbPayments, PaymentsForDebt(dbPayments, id))
Reduction(d) == d.total_amount_cad - d.remaining_amount_cad

\* C21: when a handlePayment invocation has created its payment record and
\* its debts.update then fails, the payment record stays in the store, the
\* stored debts are as they were (remaining amount and paid flag included),
\* the invocation ends without issuing a delete or a second update, and the
\* failure message is shown.
C21_FailedUpdateKeepsPayment ==
  [][\A i \in DOMAIN calls :
       (handlePaymentRejected(i) /\ calls[i].pc = "update")
         => /\ \E k \in DOMAIN dbPayments' :
                 /\ dbPayments'[k].id = calls[i].id
                 /\ dbPayments'[k].debt_id = calls[i].debt[1].id
                 /\ dbPayments'[k].amount_cad = calls[i].amount
            /\ dbPayments' = dbPayments
            /\ dbDebts' = dbDebts
            /\ calls' = RemoveAt(calls, i)
            /\ toast' = Destructive("Failed to record payment")]_vars

\* C21 witness: a payment of 100.00 is recorded against the debt of 200.00
\* whose remaining amount is still 200.00, the failure message is up and
\* nothing is in flight
C21_PaymentWithoutReduction ==
  /\ calls = <<>>
  /\ toast = Destructive("Failed to record payment")
  /\ \E k \in DOMAIN dbDebts, j \in DOMAIN dbPayments :
       /\ dbPayments[j].debt_id = dbDebts[k].id
       /\ dbPayments[j].amount_cad = 10000
       /\ dbDebts[k].remaining_amount_cad = 20000
       /\ dbDebts[k].is_paid = "0"

\* C22 as stated: a failure of handlePayment can leave the reverse partial
\* state, the debt's remaining balance reduced by the payment while the
\* payment record was not recorded: the failure of debt_payments.create
\* leaves the stored debt below the snapshot the payment was made against.
C22_FailureLeavesReduction ==
  [][\A i \in DOMAIN calls, k \in DOMAIN dbDebts' :
       (handlePaymentRejected(i) /\ calls[i].pc = "create"
          /\ dbDebts'[k].id = calls[i].debt[1].id)
         => /\ dbDebts'[k].remaining_amount_cad
                 < calls[i].debt[1].remaining_amount_cad
            /\ \A j \in DOMAIN dbPayments' :
                 dbPayments'[j].id # calls[i].id]_vars

\* C22 as amended: the reverse partial state is not reachable through
\* handlePayment, which creates the payment record before it updates the
\* debt: a stored debt is never reduced by more than its payment records add
\* up to, and an invocation that got as far as debts.update has its payment
\* record in the store.
C22_NoReductionWithoutRecord ==
  /\ \A k \in DOMAIN dbDebts : Reduction(dbDebts[k]) <= PaidInto(dbDebts[k].id)
  /\ \A i \in DOMAIN calls :
       (calls[i].kind = "handlePayment" /\ calls[i].pc = "update")
         => \E j \in DOMAIN dbPayments :
              /\ dbPayments[j].id = calls[i].id
              /\ dbPayments[j].debt_id = calls[i].debt[1].id
              /\ dbPayments[j].amount_cad = calls[i].amount

\* C22 witness: debt_payments.create of a payment failed: the failure
\* message is up, no payment record exists and the debt is not reduced
C22_CreateFailedNothingWritten ==
  /\ calls = <<>>
  /\ toast = Destructive("Failed to record payment")
  /\ dbPayments = <<>>
  /\ nextPaymentId = 2
  /\ \E k \in DOMAIN dbDebts : Reduction(dbDebts[k]) = 0

\* C24: payment conservation: whenever no handlePayment is in flight, every
\* stored debt's total less its remaining amount equals the sum of amount_cad
\* over the payment records of that debt.
C24_PaymentConservation ==
  (\A i \in DOMAIN calls : calls[i].kind # "handlePayment")
    => \A k \in DOMAIN dbDebts :
         Reduction(dbDebts[k]) = PaidInto(dbDebts[k].id)

\* C25: no step lets a stored debt's remaining_amount_cad increase or its
\* paid flag go back from "1" to "0".
C25_RemainingNeverIncreases ==
  [][\A k \in DOMAIN dbDebts, j \in DOMAIN dbDebts' :
       dbDebts'[j].id = dbDebts[k].id
         => /\ dbDebts'[j].remaining_amount_cad
                 <= dbDebts[k].remaining_amount_cad
            /\ dbDebts[k].is_paid = "1" => dbDebts'[j].is_paid = "1"]_vars

\* C26: referential integrity: every payment record's debt_id is the id of
\* a stored debt, so once deleteDebt(d) has succeeded no payment record
\* refers to d.
C26_PaymentsReferToDebts ==
  \A j \in DOMAIN dbPayments : StoreHas(dbPayments[j].debt_id)

(* ======================= Analytics loads: claims ===================== *)
\* C23: loadData issues its transactions list and its debts list together
\* and touches the view state only once both have answered: the displayed
\* transactions and debts are both replaced from that one load, or, when a
\* list fails, both left as they were; loading is false after either.
C23_LoadDataAllOrNothing ==
  [][ /\ Len(analyticsCalls') > Len(analyticsCalls)
         => /\ analyticsCalls'[Len(analyticsCalls')].allTransactions = <<>>
            /\ analyticsCalls'[Len(analyticsCalls')].allDebts = <<>>
      /\ \A i \in DOMAIN analyticsCalls :
           /\ (loadDataTransactionsListed(i) \/ loadDataDebtsListed(i))
                => UNCHANGED <<transactions, analyticsDebts, analyticsLoading>>
           /\ (loadDataResolved(i)
                 /\ AnalyticsMounted(analyticsCalls[i].mount))
                => /\ transactions' =
                        filteredTransactions(
                          analyticsCalls[i].allTransactions[1],
                          analyticsCalls[i].startDate,
                          analyticsCalls[i].endDate)
                   /\ analyticsDebts' = analyticsCalls[i].allDebts[1]
                   /\ ~analyticsLoading'
           /\ (loadDataRejected(i)
                 /\ AnalyticsMounted(analyticsCalls[i].mount))
                => /\ UNCHANGED <<transactions, analyticsDebts>>
                   /\ ~analyticsLoading' ]_vars

\* C23 witness: the load for the last month failed after its debts list had
\* answered: the page still shows the two transactions and the debt of the
\* load before it, and is no longer loading
C23_FailedLoadLeftBoth ==
  /\ analyticsOpen
  /\ analyticsMount = 1
  /\ timeRange = "1month"
  /\ analyticsCalls = <<>>
  /\ ~analyticsLoading
  /\ Len(transactions) = 2
  /\ analyticsDebts = dbDebts

\* C28: when the last loadData in flight completes, the displayed list is
\* the user's transactions filtered for the range selected last, whatever
\* the order in which the loads answered.
C28_LatestRangeDisplayed ==
  [][\A i \in DOMAIN analyticsCalls :
       (loadDataResolved(i) /\ Len(analyticsCalls) = 1
          /\ AnalyticsMounted(analyticsCalls[i].mount))
         => transactions' =
              filteredTransactions(orderByDateDesc(dbTransactions),
                                   startDate(timeRange, now), now)]_vars

(* ======================== family access: claims ====================== *)
\* C27: whatever the sequence of addFamilyMember invocations, overlapping
\* ones and ones made before the list was reloaded included, the store never
\* holds two grants with the same member_email nor a grant whose
\* member_email is the owner's own address, and every grant is created with
\* access_level "view" and is_active "1".
C27_GrantsUnique ==
  [][ /\ \A j, k \in DOMAIN dbFamily' :
           j # k => dbFamily'[j].member_email # dbFamily'[k].member_email
      /\ \A k \in DOMAIN dbFamily' : dbFamily'[k].member_email # userEmail
      /\ \A i \in DOMAIN familyCalls :
           addFamilyMemberCreated(i)
             => /\ dbFamily'[Len(dbFamily')].access_level = "view"
                /\ dbFamily'[Len(dbFamily')].is_active = "1" ]_vars

(* ========================= clear all data: claims ==================== *)
\* the steps of a clearAllData invocation
ClearStep ==
  \/ \E ok \in BOOLEAN : clearAllData(ok)
  \/ \E i \in DOMAIN settingsCalls :
       \/ \E c \in settingsCalls[i].lists :
            clearAllDataListed(i, c) \/ clearAllDataListRejected(i, c)
       \/ \E d \in settingsCalls[i].deletes :
            clearAllDataDeleted(i, d) \/ clearAllDataDeleteRejected(i, d)

RECURSIVE SumRemaining(_, _)
SumRemaining(list, indices) ==
  IF indices = {} THEN 0
  ELSE LET i == CHOOSE j \in indices : TRUE
       IN  list[i].remaining_amount_cad + SumRemaining(list, indices \ {i})

\* the sum of remaining_amount_cad over the store's unpaid debts of a type
StoreTotal(type) ==
  SumRemaining(dbDebts, {k \in DOMAIN dbDebts :
                           dbDebts[k].type = type /\ dbDebts[k].is_paid = "0"})

\* both pages show the store's present state: each has loaded it and has
\* rendered what it loaded
BothPagesCurrent ==
  /\ ~dashboardLoading /\ ~loading
  /\ dashboardDebts = activeDebtsListed(dbDebts)
  /\ debts = Reverse(dbDebts)
  /\ dashboardTotals = <<[totalOwed |-> totalOwed(dashboardDebts),
                          totalLent |-> totalLent(dashboardDebts)]>>
  /\ quickStats = <<[owe  |-> sumRemainingAmountCad(debtsByType("owe")),
                     lent |-> sumRemainingAmountCad(debtsByType("lent"))]>>

\* C30: for the same store state the Dashboard's 'Money You Owe' and 'Money
\* Lent' equal the DebtManager's 'Total I Owe' and 'Total Lent Out', and both
\* are the sum of remaining_amount_cad over all the unpaid debts of that
\* direction, however many unpaid debts there are.
C30_TotalsAgree ==
  BothPagesCurrent
    => /\ dashboardTotals[1].totalOwed = quickStats[1].owe
       /\ dashboardTotals[1].totalLent = quickStats[1].lent
       /\ quickStats[1].owe = StoreTotal("owe")
       /\ quickStats[1].lent = StoreTotal("lent")

====
